---- MODULE Spec2Model ----
(***************************************************************************)
(* A model of scripts/statusline.js (contextbricks-universal): the         *)
(* rate-limit cache of fetchUsageData, the Line 1 layout with graceful     *)
(* degradation, and the Line 3 context-brick computation.                  *)
(*                                                                         *)
(* Strings are sequences of one-character strings; JSON documents are      *)
(* sequences of tokens, written by the Stringify operators and read back   *)
(* by the Parse operators.                                                 *)
(***************************************************************************)
EXTENDS Integers, Sequences, FiniteSets, TLC

VARIABLES
    now,        \* Date.now(), in ms
    cacheFile,  \* ~/.claude/.usage-cache.json: [exists, text]
    last,       \* what the latest render's rate-limit path was given and did
    persisted,  \* history: the {timestamp, data} entries renders have written
    l1,         \* Line 1: the facts and budget of a render, and the line built
    l3,         \* Line 3: the telemetry of a render, and the line built
    render,     \* one render of main(): its position, what it met, its output
    race        \* two concurrent renders on the unlocked cache file

vars == <<now, cacheFile, last, persisted, l1, l3, render, race>>

\* ------------------------------------------------------------------ bounds

\* The clock advances in steps of TimeUnitMs, up to MaxTime steps.
MaxTime == 5
TimeUnitMs == 150 * 1000

\* The terminal widths CONTEXTBRICKS_WIDTH is drawn from.
MinTermWidth == 20
MaxTermWidth == 56

\* ------------------------------------------------------- JSON documents

Tok(k, n) == [k |-> k, n |-> n]
LBRACE == Tok("{", 0)
RBRACE == Tok("}", 0)
NULLTOK == Tok("null", 0)
Key(name) == Tok(name, 0)
Num(n) == Tok("num", n)
\* A token no JSON document contains (an HTML error page, a torn write, ...).
GARBAGE == Tok("garbage", 0)

\* The value of one limit-window key of a RateLimitPayload.
WinAbsent == [p |-> "absent", hasU |-> FALSE, u |-> 0]
WinNull == [p |-> "null", hasU |-> FALSE, u |-> 0]
WinNoUtil == [p |-> "object", hasU |-> FALSE, u |-> 0]
WinObj(u) == [p |-> "object", hasU |-> TRUE, u |-> u]

\* JavaScript values the rate-limit path handles: undefined, null, or an object
\* with the four known window keys and possibly an unknown key ("error").
Undefined ==
    [kind |-> "undefined", five_hour |-> WinAbsent, seven_day |-> WinAbsent,
     seven_day_sonnet |-> WinAbsent, seven_day_opus |-> WinAbsent, error |-> FALSE]
JsonNull == [Undefined EXCEPT !.kind = "null"]
Obj(f, s, n, o, e) ==
    [kind |-> "object", five_hour |-> f, seven_day |-> s,
     seven_day_sonnet |-> n, seven_day_opus |-> o, error |-> e]

\* JavaScript truthiness of such a value, and of a window's value.
Truthy(v) == v.kind = "object"
WinTruthy(w) == w.p = "object"

\* JSON.stringify of a window value and of a payload (keys in a fixed order).
StringifyWin(w) ==
    IF w.p = "null" THEN <<NULLTOK>>
    ELSE IF w.hasU THEN <<LBRACE, Key("utilization"), Num(w.u), RBRACE>>
    ELSE <<LBRACE, RBRACE>>

\* Mutant: null-valued members are dropped from the document.
StringifyMemberDropNull(name, w) ==
    IF w.p # "object" THEN <<>> ELSE <<Key(name)>> \o StringifyWin(w)

StringifyMember(name, w) ==
    IF w.p = "absent" THEN <<>> ELSE <<Key(name)>> \o StringifyWin(w)

StringifyValue(v) ==
    IF v.kind # "object" THEN <<NULLTOK>>
    ELSE <<LBRACE>>
         \o StringifyMember("five_hour", v.five_hour)
         \o StringifyMember("seven_day", v.seven_day)
         \o StringifyMember("seven_day_sonnet", v.seven_day_sonnet)
         \o StringifyMember("seven_day_opus", v.seven_day_opus)
         \o (IF v.error THEN <<Key("error"), Num(1)>> ELSE <<>>)
         \o <<RBRACE>>

\* JSON.stringify({ timestamp, data }) of line 221.
StringifyEntry(timestamp, data) ==
    <<LBRACE, Key("timestamp"), Num(timestamp), Key("data")>>
    \o StringifyValue(data) \o <<RBRACE>>

ParseFail == [ok |-> FALSE, v |-> Undefined, next |-> 0]

\* JSON.parse of a window value starting at token i of s.
ParseWin(s, i) ==
    IF i > Len(s) THEN [ok |-> FALSE, v |-> WinAbsent, next |-> 0]
    ELSE IF s[i] = NULLTOK THEN [ok |-> TRUE, v |-> WinNull, next |-> i + 1]
    ELSE IF s[i] # LBRACE THEN [ok |-> FALSE, v |-> WinAbsent, next |-> 0]
    ELSE IF i + 1 <= Len(s) /\ s[i + 1] = RBRACE
         THEN [ok |-> TRUE, v |-> WinNoUtil, next |-> i + 2]
    ELSE IF /\ i + 3 <= Len(s)
            /\ s[i + 1] = Key("utilization")
            /\ s[i + 2].k = "num"
            /\ s[i + 3] = RBRACE
         THEN [ok |-> TRUE, v |-> WinObj(s[i + 2].n), next |-> i + 4]
    ELSE [ok |-> FALSE, v |-> WinAbsent, next |-> 0]

\* An optional member `name` at token i: absent when the key is not there.
ParseMember(s, i, name) ==
    IF i <= Len(s) /\ s[i] = Key(name) THEN ParseWin(s, i + 1)
    ELSE [ok |-> TRUE, v |-> WinAbsent, next |-> i]

\* The end of an object whose four window members are parsed: an optional
\* unknown member ("error") and the closing brace, from token j of s.
ParseClose(s, f, sd, sn, so, j) ==
    IF j + 2 <= Len(s) /\ s[j] = Key("error") /\ s[j + 1].k = "num"
       /\ s[j + 2] = RBRACE
    THEN [ok |-> TRUE, v |-> Obj(f, sd, sn, so, TRUE), next |-> j + 3]
    ELSE IF j <= Len(s) /\ s[j] = RBRACE
    THEN [ok |-> TRUE, v |-> Obj(f, sd, sn, so, FALSE), next |-> j + 1]
    ELSE ParseFail

\* The members of an object one after the other, each given the result m of
\* the one before.
ParseAfterOpus(s, f, sd, sn, m) ==
    IF m.ok THEN ParseClose(s, f, sd, sn, m.v, m.next) ELSE ParseFail

ParseAfterSonnet(s, f, sd, m) ==
    IF m.ok
    THEN ParseAfterOpus(s, f, sd, m.v, ParseMember(s, m.next, "seven_day_opus"))
    ELSE ParseFail

ParseAfterSevenDay(s, f, m) ==
    IF m.ok
    THEN ParseAfterSonnet(s, f, m.v, ParseMember(s, m.next, "seven_day_sonnet"))
    ELSE ParseFail

ParseAfterFiveHour(s, m) ==
    IF m.ok
    THEN ParseAfterSevenDay(s, m.v, ParseMember(s, m.next, "seven_day"))
    ELSE ParseFail

\* JSON.parse of a payload value starting at token i of s.
ParseValue(s, i) ==
    IF i > Len(s) THEN ParseFail
    ELSE IF s[i] = NULLTOK THEN [ok |-> TRUE, v |-> JsonNull, next |-> i + 1]
    ELSE IF s[i] # LBRACE THEN ParseFail
    ELSE ParseAfterFiveHour(s, ParseMember(s, i + 1, "five_hour"))

\* A parsed value r is the document s when no token of s is left over.
WholeText(s, r) ==
    IF r.ok /\ r.next = Len(s) + 1 THEN [ok |-> TRUE, v |-> r.v]
    ELSE [ok |-> FALSE, v |-> Undefined]

\* JSON.parse(result.stdout) of line 217: the whole text must be one value.
ParseBody(s) == WholeText(s, ParseValue(s, 1))

NoEntry == [ok |-> FALSE, hasTs |-> FALSE, timestamp |-> 0, data |-> Undefined]

\* The entry whose data member parsed as d, when the closing brace follows it.
EntryEnd(s, hasTs, d) ==
    IF d.ok /\ d.next = Len(s) /\ s[d.next] = RBRACE
    THEN [ok |-> TRUE, hasTs |-> hasTs,
          timestamp |-> IF hasTs THEN s[3].n ELSE 0, data |-> d.v]
    ELSE NoEntry

\* The optional data member of an entry, at token j of s.
EntryData(s, hasTs, j) ==
    IF j <= Len(s) /\ s[j] = Key("data")
    THEN EntryEnd(s, hasTs, ParseValue(s, j + 1))
    ELSE EntryEnd(s, hasTs, [ok |-> TRUE, v |-> Undefined, next |-> j])

\* Mutant: a parser that closes the braces a truncated document leaves open.
ParseEntryTolerant(s) ==
    IF Len(s) < 2 \/ s[1] # LBRACE THEN NoEntry
    ELSE IF Len(s) >= 3 /\ s[2] = Key("timestamp") /\ s[3].k = "num"
    THEN IF EntryData(s, TRUE, 4).ok THEN EntryData(s, TRUE, 4)
         ELSE EntryData(s \o <<RBRACE, RBRACE>>, TRUE, 4)
    ELSE EntryData(s, FALSE, 2)

\* JSON.parse(cacheRaw) of lines 167 and 235, for a document that is an object
\* with an optional numeric timestamp and an optional data member.
ParseEntry(s) ==
    IF Len(s) < 2 \/ s[1] # LBRACE THEN NoEntry
    ELSE IF Len(s) >= 3 /\ s[2] = Key("timestamp") /\ s[3].k = "num"
    THEN EntryData(s, TRUE, 4)
    ELSE EntryData(s, FALSE, 2)

\* ------------------------------------------------- the usage cache file

NoFile == [exists |-> FALSE, text |-> <<>>]
FileOf(text) == [exists |-> TRUE, text |-> text]

CACHE_TTL_MS == 5 * 60 * 1000

\* fs.readFileSync + JSON.parse of the cache file (lines 166-167, 234-235):
\* ok is FALSE where either throws.
ReadCache(file) == IF file.exists THEN ParseEntry(file.text) ELSE NoEntry

\* Mutant: no entry is ever fresh.
IsFreshNever(cache, t) == FALSE

\* The freshness test of line 168.
IsFresh(cache, t) ==
    /\ cache.ok
    /\ cache.hasTs /\ cache.timestamp # 0
    /\ (t - cache.timestamp) < CACHE_TTL_MS

\* Mutant: every parsed object is cached, error responses included.
IsUsageDataAnyObject(data) == Truthy(data)

\* The test of line 219 that decides whether a response is cached.
IsUsageData(data) ==
    /\ Truthy(data)
    /\ \/ WinTruthy(data.five_hour)
       \/ WinTruthy(data.seven_day)
       \/ WinTruthy(data.seven_day_sonnet)
       \/ WinTruthy(data.seven_day_opus)

\* fs.writeFileSync of lines 221-224; writeOk is FALSE where it throws.
WriteCache(file, t, data, writeOk) ==
    IF writeOk THEN FileOf(StringifyEntry(t, data)) ELSE file

\* ------------------------------------------------------ the live fetch

\* What the fetch subprocess meets: the request hangs, the connection fails,
\* the body exceeds MAX_BODY_SIZE, the subprocess cannot run, or a response
\* arrives with a status code and a body.
Run(kind, statusCode, body) == [kind |-> kind, statusCode |-> statusCode, body |-> body]

\* The subprocess script of lines 176-205: what it writes to stdout.
httpsScript(run) ==
    IF run.kind = "response" /\ run.statusCode = 200 THEN run.body ELSE <<>>

\* spawnSync of lines 208-214: status is "null" when the subprocess is killed
\* at the 4000 ms timeout.
spawnFetch(run) ==
    IF run.kind = "hang" THEN [status |-> "null", stdout |-> <<>>]
    ELSE IF run.kind = "crash" THEN [status |-> "1", stdout |-> <<>>]
    ELSE [status |-> "0", stdout |-> httpsScript(run)]

\* Line 236: if (cache.data) return cache.data.
StaleData(cache) ==
    IF cache.ok /\ Truthy(cache.data) THEN cache.data ELSE JsonNull

\* The stale-cache read of lines 233-239, in the catch of the fetch.
StaleCache(file) == StaleData(ReadCache(file))

\* What fetchUsageData returns and leaves behind: the payload, the cache file,
\* whether the fetch subprocess was started, and how often the cache file was
\* read.
Returned(data, file, fetched, outcome) ==
    [data |-> data, file |-> file, fetched |-> fetched, outcome |-> outcome,
     reads |-> 0]

\* One fs.readFileSync(cacheFile) more (lines 166 and 234).
ReadOnce(r) == [r EXCEPT !.reads = @ + 1]

\* Lines 217-229: the body parsed, cached when it is usage data, and returned;
\* the catch of line 231 when JSON.parse throws.
OnBody(file, t, parsed, writeOk) ==
    IF ~parsed.ok
    THEN ReadOnce(Returned(StaleCache(file), file, TRUE, "parse_error"))
    ELSE IF IsUsageData(parsed.v)
    THEN Returned(parsed.v, WriteCache(file, t, parsed.v, writeOk), TRUE, "fetched")
    ELSE Returned(parsed.v, file, TRUE, "not_usage_data")

\* Lines 216-242: what fetchUsageData makes of the spawnSync result.
OnResult(file, t, result, writeOk) ==
    IF result.status = "0" /\ result.stdout # <<>>
    THEN OnBody(file, t, ParseBody(result.stdout), writeOk)
    ELSE Returned(JsonNull, file, TRUE, "no_output")

\* Lines 207-242: the fetch, the cache write and the catch.
LiveFetch(file, t, run, writeOk) == OnResult(file, t, spawnFetch(run), writeOk)

\* Lines 164-173: the cache read and the fresh hit, else the live fetch.
OnCache(cache, file, t, run, writeOk) ==
    ReadOnce(IF IsFresh(cache, t)
             THEN Returned(cache.data, file, FALSE, "fresh_cache")
             ELSE LiveFetch(file, t, run, writeOk))

\* Mutant: the cache is tried before the mock payload is looked at.
fetchUsageDataCacheBeforeMock(token, mockData, file, t, run, writeOk) ==
    IF token # "" THEN OnCache(ReadCache(file), file, t, run, writeOk)
    ELSE IF Truthy(mockData) THEN Returned(mockData, file, FALSE, "mock")
    ELSE Returned(JsonNull, file, FALSE, "no_token")

\* Mutant: the cache and the network are tried without a credential.
fetchUsageDataNoTokenCheck(token, mockData, file, t, run, writeOk) ==
    IF Truthy(mockData) THEN Returned(mockData, file, FALSE, "mock")
    ELSE OnCache(ReadCache(file), file, t, run, writeOk)

\* fetchUsageData(token, input), lines 154-243; mockData is
\* input._mock_rate_limits, t is Date.now().
fetchUsageData(token, mockData, file, t, run, writeOk) ==
    IF Truthy(mockData) THEN Returned(mockData, file, FALSE, "mock")
    ELSE IF token = "" THEN Returned(JsonNull, file, FALSE, "no_token")
    ELSE OnCache(ReadCache(file), file, t, run, writeOk)

\* --------------------------------------------------------------- Line 4

\* buildLimitSegment, lines 287-295: no segment when the utilization is null
\* or missing.
buildLimitSegment(data, w, label) ==
    IF Truthy(data) /\ w.p = "object" /\ w.hasU
    THEN <<[label |-> label, pct |-> w.u]>>
    ELSE <<>>

\* formatRateLimitLine, lines 298-308: the segments in their fixed order; the
\* empty sequence is the empty string (Line 4 omitted).
formatRateLimitLine(data) ==
    IF ~Truthy(data) THEN <<>>
    ELSE buildLimitSegment(data, data.five_hour, "5h")
         \o buildLimitSegment(data, data.seven_day, "7d")
         \o buildLimitSegment(data, data.seven_day_sonnet, "sonnet")
         \o buildLimitSegment(data, data.seven_day_opus, "opus")


\* Lines 587-590: Line 4 from the usage data r.data.
WithLine4(r) ==
    [data |-> r.data, file |-> r.file, fetched |-> r.fetched,
     outcome |-> r.outcome, reads |-> r.reads,
     line4 |-> formatRateLimitLine(r.data)]

\* Lines 583-591 of main: the rate-limit path of one render, and its Line 4.
mainLine4(showLimits, token, mockData, file, t, run, writeOk) ==
    WithLine4(IF showLimits
              THEN fetchUsageData(token, mockData, file, t, run, writeOk)
              ELSE Returned(Undefined, file, FALSE, "limits_off"))

\* ------------------------------------------- inputs of the rate-limit path

P1 == Obj(WinObj(23), WinObj(41), WinAbsent, WinNull, FALSE)
P2 == Obj(WinObj(80), WinAbsent, WinAbsent, WinAbsent, FALSE)
\* An error response: parsable JSON with none of the known window keys.
PError == Obj(WinAbsent, WinAbsent, WinAbsent, WinAbsent, TRUE)
\* A response whose known window keys are all null.
PNullWindows == Obj(WinNull, WinNull, WinAbsent, WinAbsent, FALSE)
\* The _mock_rate_limits payload of bin/cli.js test().
PMock == Obj(WinObj(64), WinObj(57), WinObj(9), WinNull, FALSE)

Tokens == {"", "oauth-token"}
Mocks == {Undefined, PMock}

\* No fetch was started.
NoRun == Run("none", 0, <<>>)

\* The response bodies, as the text the server sends.
UtilText(u) == <<LBRACE, Key("utilization"), Num(u), RBRACE>>
BodyError == <<LBRACE, Key("error"), Num(1), RBRACE>>
BodyNullWindows ==
    <<LBRACE, Key("five_hour"), NULLTOK, Key("seven_day"), NULLTOK, RBRACE>>
BodyP1 ==
    <<LBRACE, Key("five_hour")>> \o UtilText(23) \o <<Key("seven_day")>>
    \o UtilText(41) \o <<Key("seven_day_opus"), NULLTOK, RBRACE>>
BodyP2 == <<LBRACE, Key("five_hour")>> \o UtilText(80) \o <<RBRACE>>

Runs ==
    {Run("hang", 0, <<>>), Run("error", 0, <<>>),
     Run("response", 500, BodyError),
     Run("response", 200, <<>>),
     Run("response", 200, <<GARBAGE>>),
     Run("response", 200, BodyError),
     Run("response", 200, BodyNullWindows),
     Run("response", 200, BodyP1),
     Run("response", 200, BodyP2)}

\* Cache files a first render can find: none, a torn or foreign file, an entry
\* an earlier run wrote, an entry without a timestamp.
InitialCacheFiles ==
    {NoFile,
     FileOf(<<GARBAGE>>),
     FileOf(StringifyEntry(TimeUnitMs, P2)),
     FileOf(<<LBRACE, Key("data")>> \o StringifyValue(P1) \o <<RBRACE>>)}

NoRender ==
    [valid |-> FALSE, showLimits |-> FALSE, token |-> "", mockData |-> Undefined,
     run |-> NoRun, writeOk |-> TRUE, at |-> 0, before |-> NoFile,
     data |-> Undefined, fetched |-> FALSE, outcome |-> "none", reads |-> 0,
     line4 |-> <<>>]

\* Line 1 and Line 3 are not part of this specification.
L1Idle == [pc |-> "idle"]
L3Idle == [pc |-> "idle"]
\* Nor are the step-by-step render and the concurrent renders.
RenderIdle == [pc |-> "idle"]
RaceIdle == [pc |-> "idle"]

\* ------------------------------------------- sequential renders over time

Init ==
    /\ now = TimeUnitMs
    /\ cacheFile \in InitialCacheFiles
    /\ last = NoRender
    /\ persisted = {}
    /\ render = RenderIdle
    /\ race = RaceIdle
    /\ l1 = L1Idle
    /\ l3 = L3Idle

\* Time passes between renders.
Tick ==
    /\ now < MaxTime * TimeUnitMs
    /\ now' = now + TimeUnitMs
    /\ UNCHANGED <<cacheFile, last, persisted, l1, l3, render, race>>

\* The network answers only a render that starts a fetch, and the cache write
\* can fail only where one is made: r is the render with a successful write.
ChoiceMade(ch, r) ==
    /\ (ch.run = NoRun) <=> ~r.fetched
    /\ ~ch.writeOk => r.outcome = "fetched"

\* What a render can meet: its configuration, credential and input, the answer
\* of the network, and the fate of the cache write.
RenderChoices(file, t) ==
    {ch \in [showLimits : BOOLEAN, token : Tokens, mockData : Mocks,
             run : Runs \cup {NoRun}, writeOk : BOOLEAN] :
        ChoiceMade(ch, mainLine4(ch.showLimits, ch.token, ch.mockData, file, t,
                                 ch.run, TRUE))}

\* One render's rate-limit path: main, lines 583-591.
Render ==
    \E ch \in RenderChoices(cacheFile, now) :
      \E r \in {mainLine4(ch.showLimits, ch.token, ch.mockData, cacheFile, now,
                          ch.run, ch.writeOk)} :
           /\ cacheFile' = r.file
           /\ last' = [valid |-> TRUE, showLimits |-> ch.showLimits,
                       token |-> ch.token, mockData |-> ch.mockData,
                       run |-> ch.run, writeOk |-> ch.writeOk, at |-> now,
                       before |-> cacheFile, data |-> r.data,
                       fetched |-> r.fetched, outcome |-> r.outcome,
                       reads |-> r.reads, line4 |-> r.line4]
           /\ persisted' = IF r.outcome = "fetched" /\ ch.writeOk
                           THEN persisted \cup {[t |-> now, data |-> r.data]}
                           ELSE persisted
           /\ UNCHANGED <<now, l1, l3, render, race>>

Next == Tick \/ Render

Spec == Init /\ [][Next]_vars

\* ----------------------------------------------- claims on the usage cache

\* The latest render had a credential, no mock payload and rate limits enabled.
CredRender ==
    last.valid /\ last.showLimits /\ last.token # "" /\ ~Truthy(last.mockData)

\* The cache entry the latest render found, and the body its fetch was sent.
EntryBefore == ReadCache(last.before)
ReplyBody == ParseBody(last.run.body)
GotReply == last.run.kind = "response" /\ last.run.statusCode = 200

\* The ways a live fetch fails: killed at its timeout, network error, non-200
\* response, empty output, unparsable body.
FetchFailed ==
    \/ last.run.kind \in {"hang", "error"}
    \/ last.run.kind = "response" /\ last.run.statusCode # 200
    \/ GotReply /\ last.run.body = <<>>
    \/ GotReply /\ ~ReplyBody.ok

SomeKeyPresent(v) ==
    \/ v.five_hour.p # "absent"
    \/ v.seven_day.p # "absent"
    \/ v.seven_day_sonnet.p # "absent"
    \/ v.seven_day_opus.p # "absent"

SomeKeyNonNull(v) ==
    \/ v.five_hour.p = "object"
    \/ v.seven_day.p = "object"
    \/ v.seven_day_sonnet.p = "object"
    \/ v.seven_day_opus.p = "object"

\* C1: stale-cache rescue. When a render with a credential and no mock payload
\* starts a fetch (no fresh entry) and the fetch fails in any way while the
\* cache file holds an entry with data, fetchUsageData returns that entry's
\* data whatever its age, and Line 4 is rendered from it.
C1_StaleCacheRescue ==
    (/\ CredRender
     /\ last.fetched
     /\ FetchFailed
     /\ EntryBefore.ok /\ EntryBefore.hasTs /\ Truthy(EntryBefore.data))
    => /\ last.data = EntryBefore.data
       /\ last.line4 = formatRateLimitLine(EntryBefore.data)

\* C2: an unrecognized payload counts as a fetch failure. When the fetch
\* returns parsable JSON with none of the known limit-window keys and a cache
\* entry exists, the render uses the entry's data for Line 4, and the
\* unrecognized payload is neither displayed nor persisted.
C2_UnrecognizedPayloadFallsBack ==
    (/\ CredRender
     /\ last.fetched
     /\ GotReply /\ ReplyBody.ok /\ Truthy(ReplyBody.v)
     /\ ~SomeKeyPresent(ReplyBody.v)
     /\ EntryBefore.ok /\ EntryBefore.hasTs /\ Truthy(EntryBefore.data))
    => /\ last.data = EntryBefore.data
       /\ last.line4 = formatRateLimitLine(EntryBefore.data)
       /\ cacheFile = last.before

\* The latest render is the one that wrote entry e.
Wrote(e) ==
    /\ last.outcome = "fetched" /\ last.writeOk
    /\ last.at = e.t /\ last.data = e.data

\* C3: cache round-trip. After a render persists payload P at time t, every
\* later render with a credential and no mock payload that starts at a time
\* now with now - t < TTL returns a payload equal to P and starts no fetch.
C3_CacheRoundTrip ==
    \A e \in persisted :
        (CredRender /\ ~Wrote(e) /\ last.at - e.t < 5 * 60 * 1000)
        => (last.data = e.data /\ ~last.fetched)

\* A later render, two and a half minutes after the write, served from cache.
C3_Witness ==
    \E e \in persisted :
        /\ CredRender /\ ~Wrote(e)
        /\ last.at > e.t /\ last.at - e.t < 5 * 60 * 1000
        /\ last.data = e.data /\ ~last.fetched

\* The latest render's fetch got a parsable 200 reply and its write went through.
ParsedReply == last.valid /\ last.fetched /\ GotReply /\ ReplyBody.ok
HoldsEntry(file, t, data) ==
    file.exists /\ ParseEntry(file.text) =
        [ok |-> TRUE, hasTs |-> TRUE, timestamp |-> t, data |-> data]

C15_NoRetries ==
    [][/\ CredRender' =>
              /\ last'.fetched <=> ~IsFresh(ReadCache(last'.before), last'.at)
              /\ last'.fetched <=> last'.run \in Runs
       /\ (CredRender /\ CredRender' /\ last' # last) =>
              /\ (last.fetched /\ FetchFailed) => last'.fetched
              /\ (last.outcome = "fetched" /\ last'.at - last.at < CACHE_TTL_MS)
                     => ~last'.fetched]_vars

\* C15 amended: the render less than the TTL after a successful recognizable
\* fetch starts no fetch when that render's cache write succeeded; after a
\* failed write it fetches again, the cache holding no fresh entry.
C15_RefetchDrivenByCache ==
    [][/\ CredRender' =>
              /\ last'.fetched <=> ~IsFresh(ReadCache(last'.before), last'.at)
              /\ last'.fetched <=> last'.run \in Runs
       /\ (CredRender /\ CredRender' /\ last' # last) =>
              /\ (last.fetched /\ FetchFailed) => last'.fetched
              /\ (last.outcome = "fetched" /\ last.writeOk
                  /\ last'.at - last.at < CACHE_TTL_MS) => ~last'.fetched
              /\ (last.outcome = "fetched" /\ ~last.writeOk) => last'.fetched]_vars

\* A render read the cache once, found the entry an earlier render of this
\* run wrote less than the TTL ago, and started no fetch.
C15_Witness ==
    /\ CredRender
    /\ last.outcome = "fresh_cache" /\ last.reads = 1 /\ last.run = NoRun
    /\ \E e \in persisted :
           /\ last.at > e.t /\ last.at - e.t < CACHE_TTL_MS
           /\ HoldsEntry(last.before, e.t, e.data)

\* The latest render's input carried a mock rate-limit payload.
MockRender == last.valid /\ last.showLimits /\ Truthy(last.mockData)

\* C18: with a mock payload in the input, fetchUsageData returns exactly that
\* payload and neither reads nor writes the cache nor starts a fetch, with or
\* without a credential or a cache entry.
C18_MockBypassesCacheAndNetwork ==
    MockRender =>
        /\ last.data = last.mockData
        /\ last.reads = 0
        /\ ~last.fetched /\ last.run = NoRun
        /\ cacheFile = last.before

\* A mock render with a credential at hand and a stale entry in the cache.
C18_Witness ==
    /\ MockRender
    /\ last.token # ""
    /\ EntryBefore.ok /\ ~IsFresh(EntryBefore, last.at)
    /\ last.data = PMock
    /\ last.line4 # <<>>

\* The latest render had rate limits enabled, no credential and no mock.
NoCredRender ==
    last.valid /\ last.showLimits /\ last.token = "" /\ ~Truthy(last.mockData)

\* C19: without a credential and without a mock payload Line 4 is omitted and
\* neither the cache nor the network is accessed, even if the cache file
\* holds a fresh entry.
C19_NoCredentialNoAccess ==
    NoCredRender =>
        /\ last.line4 = <<>>
        /\ last.reads = 0
        /\ ~last.fetched /\ last.run = NoRun
        /\ cacheFile = last.before

\* A render without a credential left a fresh entry with segments unread.
C19_Witness ==
    /\ NoCredRender
    /\ IsFresh(EntryBefore, last.at)
    /\ formatRateLimitLine(EntryBefore.data) # <<>>
    /\ last.line4 = <<>> /\ last.reads = 0

\* ------------------------------------------------------------- strings

\* The escape character \x1b.
ESC == "ESC"

\* The ANSI color helpers c of lines 101-115.
c_reset == <<ESC, "[", "0", "m">>
c_bold == <<ESC, "[", "1", "m">>
c_dim == <<ESC, "[", "2", "m">>
c_cyan == <<ESC, "[", "1", ";", "3", "6", "m">>
c_green == <<ESC, "[", "1", ";", "3", "2", "m">>
c_blue == <<ESC, "[", "1", ";", "3", "4", "m">>
c_red == <<ESC, "[", "1", ";", "3", "1", "m">>
c_yellow == <<ESC, "[", "1", ";", "3", "3", "m">>
c_dimWhite == <<ESC, "[", "2", ";", "3", "7", "m">>
c_greenNorm == <<ESC, "[", "0", ";", "3", "2", "m">>
c_redNorm == <<ESC, "[", "0", ";", "3", "1", "m">>
c_cyanNorm == <<ESC, "[", "0", ";", "3", "6", "m">>
c_yellowNorm == <<ESC, "[", "0", ";", "3", "3", "m">>

DigitChars == <<"0", "1", "2", "3", "4", "5", "6", "7", "8", "9">>

\* The decimal digits of a natural number.
RECURSIVE Digits(_)
Digits(n) ==
    IF n < 10 THEN <<DigitChars[n + 1]>>
    ELSE Digits(n \div 10) \o <<DigitChars[(n % 10) + 1]>>

\* String(n) of a template literal `${n}`, n an integer.
NumStr(n) == IF n < 0 THEN <<"-">> \o Digits(0 - n) ELSE Digits(n)

\* The first index at which pat occurs in s, or 0.
IndexOf(s, pat) ==
    LET hits == {i \in 1..(Len(s) - Len(pat) + 1) :
                    SubSeq(s, i, i + Len(pat) - 1) = pat}
    IN IF hits = {} THEN 0 ELSE CHOOSE i \in hits : \A j \in hits : i <= j

\* s.replace(pat, rep) with a string pattern: the first occurrence only.
ReplaceFirst(s, pat, rep) ==
    LET i == IndexOf(s, pat)
    IN IF i = 0 THEN s
       ELSE SubSeq(s, 1, i - 1) \o rep \o SubSeq(s, i + Len(pat), Len(s))

\* The end of the greedy match of [0-9;]* starting at index i of s.
RECURSIVE SkipParams(_, _)
SkipParams(s, i) ==
    IF i <= Len(s) /\ s[i] \in ({DigitChars[d] : d \in 1..10} \cup {";"})
    THEN SkipParams(s, i + 1)
    ELSE i

\* The last index of the match of \x1b\[[0-9;]*m that starts at index p of s,
\* or 0 when none starts there.
MatchEnd(s, p) ==
    IF s[p] = ESC /\ p + 1 <= Len(s) /\ s[p + 1] = "["
    THEN LET j == SkipParams(s, p + 2)
         IN IF j <= Len(s) /\ s[j] = "m" THEN j ELSE 0
    ELSE 0

\* stripAnsi, lines 311-313: s.replace(/\x1b\[[0-9;]*m/g, ''). A match holds
\* no escape character after its first, so no two matches overlap and the
\* characters removed are those of every match.
stripAnsi(s) ==
    LET matched == UNION {p..MatchEnd(s, p) : p \in 1..Len(s)}
        Kept(x) == x[1] \notin matched
        at == SelectSeq([i \in 1..Len(s) |-> <<i, s[i]>>], Kept)
    IN [k \in 1..Len(at) |-> at[k][2]]

\* visibleLen, lines 315-317.
visibleLen(s) == Len(stripAnsi(s))

\* ---------------------------------------------------------------- Line 1

\* Line 341: (display_name || 'Claude').replace('Claude ', '').
modelName(displayName) ==
    ReplaceFirst(IF displayName = <<>> THEN <<"C", "l", "a", "u", "d", "e">>
                 ELSE displayName,
                 <<"C", "l", "a", "u", "d", "e", " ">>, <<>>)

\* Lines 357-359: the right padding of Line 1.
rightPaddingOf(basePadding, isVSCode, remainingPct) ==
    basePadding + (IF isVSCode THEN 28 ELSE 0)

\* Lines 412-424: the dirty / ahead / behind marker ("^" and "v" stand for the
\* arrows U+2191 and U+2193, one character each).
gitStatusOf(dirty, ahead, behind) ==
    (IF dirty THEN <<"*">> ELSE <<>>)
    \o (IF ahead > 0 THEN <<"^">> \o NumStr(ahead) ELSE <<>>)
    \o (IF behind > 0 THEN <<"v">> \o NumStr(behind) ELSE <<>>)

\* Lines 437-442: the tilde-compressed working directory.
displayPathOf(cwd, home) ==
    IF Len(cwd) >= Len(home) /\ SubSeq(cwd, 1, Len(home)) = home
    THEN <<"~">> \o SubSeq(cwd, Len(home) + 1, Len(cwd))
    ELSE cwd

\* Lines 432-461: the segments of Line 1, from the facts f of a render.
line1Core(f) ==
    c_cyan \o <<"[">> \o modelName(f.displayName) \o <<"]">> \o c_reset \o <<" ">>
    \o (IF f.repoName # <<>> THEN c_green \o f.repoName \o c_reset
        ELSE IF f.showDir THEN c_dim \o displayPathOf(f.cwd, f.home) \o c_reset
        ELSE <<>>)

worktreeSegment(f) ==
    IF f.worktreeName # <<>>
    THEN c_dim \o <<"(", "w", "t", ":">> \o f.worktreeName \o <<")">> \o c_reset
    ELSE <<>>

branchSegment(f) ==
    IF f.repoName # <<>> /\ f.branch # <<>>
    THEN <<":">> \o c_blue \o f.branch \o c_reset
    ELSE <<>>

subdirSegment(f) ==
    IF f.repoName # <<>> /\ f.subDir # <<>>
    THEN <<" ">> \o c_dim \o f.subDir \o c_reset
    ELSE <<>>

gitStatusSegment(f) ==
    LET gitStatus == gitStatusOf(f.dirty, f.ahead, f.behind)
    IN IF gitStatus # <<>> THEN <<" ">> \o c_red \o gitStatus \o c_reset ELSE <<>>

diffSegment(f) ==
    IF f.linesAdded > 0 \/ f.linesRemoved > 0
    THEN <<" ", "|", " ">> \o c_greenNorm \o <<"+">> \o NumStr(f.linesAdded)
         \o c_reset \o <<"/">> \o c_redNorm \o <<"-">> \o NumStr(f.linesRemoved)
         \o c_reset
    ELSE <<>>

\* Mutant: the optional annotations are appended after the whole core.
buildLine1CoreFirst(f, includeWorktree, includeSubdir, includeDiff) ==
    line1Core(f) \o branchSegment(f) \o gitStatusSegment(f)
    \o (IF includeWorktree THEN worktreeSegment(f) ELSE <<>>)
    \o (IF includeSubdir THEN subdirSegment(f) ELSE <<>>)
    \o (IF includeDiff THEN diffSegment(f) ELSE <<>>)

\* buildLine1, lines 464-472.
buildLine1(f, includeWorktree, includeSubdir, includeDiff) ==
    line1Core(f)
    \o (IF includeWorktree THEN worktreeSegment(f) ELSE <<>>)
    \o branchSegment(f)
    \o (IF includeSubdir THEN subdirSegment(f) ELSE <<>>)
    \o gitStatusSegment(f)
    \o (IF includeDiff THEN diffSegment(f) ELSE <<>>)

\* Mutant: the last degradation step (drop the worktree name) is missing.
degradeLine1NoWorktreeStep(f, maxWidth) ==
    LET a == buildLine1(f, TRUE, TRUE, TRUE)
        b == IF visibleLen(a) > maxWidth THEN buildLine1(f, TRUE, TRUE, FALSE) ELSE a
    IN IF visibleLen(b) > maxWidth THEN buildLine1(f, TRUE, FALSE, FALSE) ELSE b

\* Mutant: the subdirectory is dropped first and the diff-stat kept.
degradeLine1SubdirFirst(f, maxWidth) ==
    LET a == buildLine1(f, TRUE, TRUE, TRUE)
        b == IF visibleLen(a) > maxWidth THEN buildLine1(f, TRUE, FALSE, TRUE) ELSE a
        c == IF visibleLen(b) > maxWidth THEN buildLine1(f, TRUE, FALSE, FALSE) ELSE b
    IN IF visibleLen(c) > maxWidth THEN buildLine1(f, FALSE, FALSE, FALSE) ELSE c

\* Lines 474-486: Line 1 with graceful degradation.
degradeLine1(f, maxWidth) ==
    LET a == buildLine1(f, TRUE, TRUE, TRUE)
        b == IF visibleLen(a) > maxWidth THEN buildLine1(f, TRUE, TRUE, FALSE) ELSE a
        c == IF visibleLen(b) > maxWidth THEN buildLine1(f, TRUE, FALSE, FALSE) ELSE b
    IN IF visibleLen(c) > maxWidth THEN buildLine1(f, FALSE, FALSE, FALSE) ELSE c

\* Lines 350-353: the terminal width; 0 stands for an unset or non-numeric value.
termWidthOf(envWidth, columns, envColumns) ==
    IF envWidth # 0 THEN envWidth
    ELSE IF columns > 0 THEN columns
    ELSE IF envColumns # 0 THEN envColumns
    ELSE 80

\* Lines 355-359 and 474-486 of main: the budget and the emitted Line 1.
mainLine1(f) ==
    LET termWidth == termWidthOf(f.envWidth, 0, 0)
        rightPadding == rightPaddingOf(f.basePadding, f.isVSCode, f.remainingPct)
        maxWidth == termWidth - rightPadding
    IN [termWidth |-> termWidth, rightPadding |-> rightPadding,
        maxWidth |-> maxWidth, line1 |-> degradeLine1(f, maxWidth)]

\* --------------------------------------------------- inputs of Line 1

S_app == <<"a", "p", "p">>
S_main == <<"m", "a", "i", "n">>
S_fix == <<"f", "i", "x">>
S_src == <<"s", "r", "c">>
S_home == <<"/", "h">>
S_ClaudeOpus == <<"C", "l", "a", "u", "d", "e", " ", "O", "p", "u", "s">>

\* What the git calls of lines 381-425 yield outside a repository, and inside
\* one (a branch always, since it falls back to "detached").
RepoFacts ==
    {[repoName |-> <<>>, worktreeName |-> <<>>, branch |-> <<>>, subDir |-> <<>>,
      dirty |-> FALSE, ahead |-> 0, behind |-> 0]}
    \cup
    [repoName : {S_app}, worktreeName : {<<>>, S_fix}, branch : {S_main},
     subDir : {<<>>, S_src}, dirty : {TRUE}, ahead : {0, 2}, behind : {0}]
    \cup
    [repoName : {S_app}, worktreeName : {<<>>, S_fix}, branch : {S_main},
     subDir : {<<>>, S_src}, dirty : {FALSE}, ahead : {0}, behind : {0}]

Line1Inputs ==
    {[displayName |-> d, cwd |-> S_home \o <<"/", "w">>, home |-> S_home,
      showDir |-> sd, repoName |-> r.repoName, worktreeName |-> r.worktreeName,
      branch |-> r.branch, subDir |-> r.subDir, dirty |-> r.dirty,
      ahead |-> r.ahead, behind |-> r.behind,
      linesAdded |-> la[1], linesRemoved |-> la[2], envWidth |-> w,
      basePadding |-> bp, isVSCode |-> vs, remainingPct |-> rp] :
        d \in {<<>>, S_ClaudeOpus}, sd \in BOOLEAN, r \in RepoFacts,
        la \in {<<0, 0>>, <<145, 23>>, <<0, 7>>},
        w \in {0} \cup (MinTermWidth..MaxTermWidth),
        bp \in {0, 5}, vs \in BOOLEAN, rp \in {10, 50}}

NoLine1 == [termWidth |-> 0, rightPadding |-> 0, maxWidth |-> 0, line1 |-> <<>>]

InitLine1 ==
    /\ now = TimeUnitMs
    /\ cacheFile = NoFile
    /\ last = NoRender
    /\ persisted = {}
    /\ render = RenderIdle
    /\ race = RaceIdle
    /\ l3 = L3Idle
    /\ \E f \in Line1Inputs :
          \* the subdirectory is computed only when CONTEXTBRICKS_SHOW_DIR is on
          /\ (f.subDir # <<>> => f.showDir)
          /\ l1 = [pc |-> "input", f |-> f, out |-> NoLine1]

\* The render builds Line 1.
BuildLine1 ==
    /\ l1.pc = "input"
    /\ l1' = [l1 EXCEPT !.pc = "done", !.out = mainLine1(l1.f)]
    /\ UNCHANGED <<now, cacheFile, last, persisted, l3, render, race>>

NextLine1 == BuildLine1

SpecLine1 == InitLine1 /\ [][NextLine1]_vars

\* ------------------------------------------------------ claims on Line 1

L1Done == l1.pc = "done"
\* The Line 1 budget: width - rightPadding.
Budget == l1.out.termWidth - l1.out.rightPadding

\* The four candidates in degradation order: all segments; without diff-stat;
\* without diff-stat and subdirectory; without all three.
Candidates ==
    <<buildLine1(l1.f, TRUE, TRUE, TRUE), buildLine1(l1.f, TRUE, TRUE, FALSE),
      buildLine1(l1.f, TRUE, FALSE, FALSE), buildLine1(l1.f, FALSE, FALSE, FALSE)>>

\* C5: the visible length of the emitted Line 1 is at most width -
\* rightPadding, unless the line with all three optional segments removed
\* already exceeds that budget, and then exactly that bare line is emitted.
C5_Line1WithinBudget ==
    L1Done =>
        \/ visibleLen(l1.out.line1) <= Budget
        \/ /\ visibleLen(Candidates[4]) > Budget
           /\ l1.out.line1 = Candidates[4]

\* The full line overflowed, segments were dropped, and the result fits.
C5_Witness ==
    /\ L1Done
    /\ visibleLen(Candidates[1]) > Budget
    /\ visibleLen(Candidates[3]) > Budget
    /\ Candidates[4] # Candidates[3]
    /\ l1.out.line1 = Candidates[4]
    /\ visibleLen(l1.out.line1) <= Budget

\* C6: degradation is strictly ordered and all-or-nothing. The emitted Line 1
\* is the first of the four candidates whose visible length fits the budget,
\* or the last candidate if none fits.
C6_FirstFittingCandidate ==
    L1Done =>
        LET fits == {i \in 1..4 : visibleLen(Candidates[i]) <= Budget}
            first == IF fits = {} THEN 4
                     ELSE CHOOSE i \in fits : \A j \in fits : i <= j
        IN l1.out.line1 = Candidates[first]

\* All three annotations exist; the diff-stat and the subdirectory were dropped
\* and the worktree annotation kept.
C6_Witness ==
    /\ L1Done
    /\ Cardinality({Candidates[i] : i \in 1..4}) = 4
    /\ visibleLen(Candidates[2]) > Budget
    /\ visibleLen(Candidates[3]) <= Budget
    /\ l1.out.line1 = Candidates[3]

\* The visible text of each part of Line 1.
PlainTag == <<"[">> \o modelName(l1.f.displayName) \o <<"]", " ">>
PlainBranch == <<":">> \o l1.f.branch
PlainMarker ==
    LET g == gitStatusOf(l1.f.dirty, l1.f.ahead, l1.f.behind)
    IN IF g = <<>> THEN <<>> ELSE <<" ">> \o g
PlainWorktree == <<"(", "w", "t", ":">> \o l1.f.worktreeName \o <<")">>
PlainSubdir == <<" ">> \o l1.f.subDir
PlainDiff ==
    <<" ", "|", " ", "+">> \o NumStr(l1.f.linesAdded) \o <<"/", "-">>
    \o NumStr(l1.f.linesRemoved)

\* All optional segments are present and the full line fits the budget.
AllSegmentsFit ==
    /\ L1Done
    /\ l1.f.repoName # <<>> /\ l1.f.worktreeName # <<>> /\ l1.f.subDir # <<>>
    /\ (l1.f.linesAdded > 0 \/ l1.f.linesRemoved > 0)
    /\ Len(PlainTag) + Len(l1.f.repoName) + Len(PlainBranch) + Len(PlainMarker)
       + Len(PlainWorktree) + Len(PlainSubdir) + Len(PlainDiff) <= Budget

\* C7 as stated: when all optional segments are present and the line fits,
\* the visible text is the core (model tag, repo identity, branch, marker)
\* followed by the worktree, subdirectory and diff-stat annotations.
C7_CoreThenAnnotations ==
    AllSegmentsFit =>
        stripAnsi(l1.out.line1) =
            PlainTag \o l1.f.repoName \o PlainBranch \o PlainMarker
            \o PlainWorktree \o PlainSubdir \o PlainDiff

\* C7 amended: when all optional segments are present and the line fits, the
\* visible text is the model tag, the repo identity, the worktree annotation,
\* the branch, the subdirectory annotation, the dirty/ahead/behind marker and
\* the diff-stat annotation, in that order.
C7_SegmentOrder ==
    AllSegmentsFit =>
        stripAnsi(l1.out.line1) =
            PlainTag \o l1.f.repoName \o PlainWorktree \o PlainBranch
            \o PlainSubdir \o PlainMarker \o PlainDiff

C7_Witness ==
    /\ AllSegmentsFit
    /\ PlainMarker # <<>>
    /\ l1.out.line1 = Candidates[1]

\* C8: for the same width, configuration and facts, the Line 1 budget of a
\* render whose remaining_percentage is critically low (below 15) is strictly
\* smaller than that of a render whose remaining_percentage is not.
C8_LowContextReservesMore ==
    (L1Done /\ l1.f.remainingPct < 15) =>
        l1.out.maxWidth < mainLine1([l1.f EXCEPT !.remainingPct = 50]).maxWidth

\* ---------------------------------------------------------------- Line 3

\* A numeric input field: has is FALSE when the field is missing; percentages
\* are held in tenths of a percent, costs in cents.
Field(n) == [has |-> TRUE, n |-> n]
Missing == [has |-> FALSE, n |-> 0]

\* Number(x) || dflt.
NumberOr(x, dflt) == IF x.has /\ x.n # 0 THEN x.n ELSE dflt

\* s repeated n times (a for loop with n iterations; none when n <= 0).
Repeat(s, n) == [i \in 1..(n * Len(s)) |-> s[((i - 1) % Len(s)) + 1]]

Max(a, b) == IF a >= b THEN a ELSE b
Min(a, b) == IF a <= b THEN a ELSE b

\* Lines 362-366: the number of bricks.
totalBricksOf(envBricks, termWidth) ==
    LET maxAutoBricks == Max(5, termWidth - 35)
    IN Max(1, Min(NumberOr(envBricks, 30), maxAutoBricks))

\* Mutant: a context_window_size of 0 is kept instead of replaced by 200000.
totalTokensOfKeepZero(size) == IF size.has THEN size.n ELSE 200000

\* Line 511: Number(context_window_size) || 200000.
totalTokensOf(size) == NumberOr(size, 200000)

\* Mutant: the percentage field is rounded to the nearest integer.
usageOfRounded(t, totalTokens) ==
    IF t.usedPct.has
    THEN [usagePct |-> (t.usedPct.n + 5) \div 10,
          usedTokens |-> (totalTokens * ((t.usedPct.n + 5) \div 10)) \div 100,
          freeTokens |-> totalTokens - (totalTokens * ((t.usedPct.n + 5) \div 10)) \div 100]
    ELSE [usagePct |-> IF totalTokens > 0 /\ t.currentUsage.has
                       THEN (t.currentUsage.n * 100) \div totalTokens ELSE 0,
          usedTokens |-> IF t.currentUsage.has THEN t.currentUsage.n ELSE 0,
          freeTokens |-> totalTokens
                         - (IF t.currentUsage.has THEN t.currentUsage.n ELSE 0)]

\* Lines 513-540: usagePct, usedTokens and freeTokens, from the percentage
\* fields when used_percentage is given, else from current_usage.
usageOf(t, totalTokens) ==
    IF t.usedPct.has
    THEN LET usagePct == t.usedPct.n \div 10
             remainingPct ==
                 IF t.remainingPct.has /\ t.remainingPct.n # 0
                 THEN t.remainingPct.n \div 10
                 ELSE 100 - usagePct
         IN [usagePct |-> usagePct,
             usedTokens |-> (totalTokens * usagePct) \div 100,
             freeTokens |-> (totalTokens * remainingPct) \div 100]
    ELSE LET usedTokens == IF t.currentUsage.has THEN t.currentUsage.n ELSE 0
         IN [usagePct |-> IF totalTokens > 0
                          THEN (usedTokens * 100) \div totalTokens ELSE 0,
             usedTokens |-> usedTokens,
             freeTokens |-> totalTokens - usedTokens]

\* Line 546.
usedBricksOf(usedTokens, totalBricks, totalTokens) ==
    IF totalTokens > 0 THEN (usedTokens * totalBricks) \div totalTokens ELSE 0

\* costUsd.toFixed(2), for a cost of whole cents.
toFixed2(cents) ==
    NumStr(cents \div 100) \o <<".">>
    \o <<DigitChars[((cents % 100) \div 10) + 1], DigitChars[(cents % 10) + 1]>>

\* Lines 503-573 of main: Line 3. "#" and "o" stand for the filled and the
\* hollow brick glyphs U+25A0 and U+25A1.
mainLine3(t) ==
    LET termWidth == termWidthOf(t.envWidth, 0, 0)
        totalBricks == totalBricksOf(t.envBricks, termWidth)
        durationMs == NumberOr(t.durationMs, 0)
        durationHours == durationMs \div 3600000
        durationMin == (durationMs % 3600000) \div 60000
        costUsd == NumberOr(t.cost, 0)
        totalTokens == totalTokensOf(t.size)
        u == usageOf(t, totalTokens)
        freeK == u.freeTokens \div 1000
        usedBricks == usedBricksOf(u.usedTokens, totalBricks, totalTokens)
        freeBricks == totalBricks - usedBricks
        brickLine ==
            <<"[">>
            \o Repeat(c_cyanNorm \o <<"#">> \o c_reset, usedBricks)
            \o Repeat(c_dimWhite \o <<"o">> \o c_reset, freeBricks)
            \o <<"]">>
            \o <<" ">> \o c_bold \o NumStr(u.usagePct) \o <<"%">> \o c_reset
            \o <<" ", "|", " ">> \o c_greenNorm \o NumStr(freeK)
            \o <<"k", " ", "f", "r", "e", "e">> \o c_reset
            \o <<" ", "|", " ">> \o NumStr(durationHours) \o <<"h">>
            \o NumStr(durationMin) \o <<"m">>
            \o (IF costUsd > 0
                THEN <<" ", "|", " ">> \o c_yellowNorm \o <<"$">>
                     \o toFixed2(costUsd) \o c_reset
                ELSE <<>>)
    IN [totalBricks |-> totalBricks, totalTokens |-> totalTokens,
        usagePct |-> u.usagePct, usedTokens |-> u.usedTokens,
        freeTokens |-> u.freeTokens, usedBricks |-> usedBricks,
        freeBricks |-> freeBricks, brickLine |-> brickLine]

\* --------------------------------------------------- inputs of Line 3

Line3Inputs ==
    [size : {Missing, Field(0), Field(0 - 1000), Field(100000), Field(200000)},
     usedPct : {Missing, Field(0), Field(435), Field(1000)},
     remainingPct : {Missing, Field(565), Field(95)},
     currentUsage : {Missing, Field(0), Field(500), Field(86000), Field(250000)},
     durationMs : {Missing, Field(765000)},
     cost : {Missing, Field(87)},
     envBricks : {Missing, Field(40)},
     envWidth : {0, 38}]

\* The sample input of bin/cli.js test(), with the default 30 bricks and width 80.
SampleInput ==
    [size |-> Field(200000), usedPct |-> Field(435), remainingPct |-> Field(565),
     currentUsage |-> Missing, durationMs |-> Field(765000), cost |-> Field(87),
     envBricks |-> Missing, envWidth |-> 0]

NoLine3 ==
    [totalBricks |-> 0, totalTokens |-> 0, usagePct |-> 0, usedTokens |-> 0,
     freeTokens |-> 0, usedBricks |-> 0, freeBricks |-> 0, brickLine |-> <<>>]

InitLine3 ==
    /\ now = TimeUnitMs
    /\ cacheFile = NoFile
    /\ last = NoRender
    /\ persisted = {}
    /\ render = RenderIdle
    /\ race = RaceIdle
    /\ l1 = L1Idle
    /\ \E t \in Line3Inputs : l3 = [pc |-> "input", t |-> t, out |-> NoLine3]

\* The render builds Line 3.
BuildLine3 ==
    /\ l3.pc = "input"
    /\ l3' = [l3 EXCEPT !.pc = "done", !.out = mainLine3(l3.t)]
    /\ UNCHANGED <<now, cacheFile, last, persisted, l1, render, race>>

NextLine3 == BuildLine3

SpecLine3 == InitLine3 /\ [][NextLine3]_vars

\* ------------------------------------------------------ claims on Line 3

L3Done == l3.pc = "done"

C10_SampleLine3 ==
    (L3Done /\ l3.t = SampleInput) =>
        stripAnsi(l3.out.brickLine) =
            <<"[">> \o Repeat(<<"#">>, 13) \o Repeat(<<"o">>, 17) \o <<"]">>
            \o <<" ", "4", "3", "%">>
            \o <<" ", "|", " ", "1", "1", "3", "k", " ", "f", "r", "e", "e">>
            \o <<" ", "|", " ", "0", "h", "1", "2", "m">>
            \o <<" ", "|", " ", "$", "0", ".", "8", "7">>

\* What the code renders for the sample input: 12 filled and 18 hollow bricks
\* and 112k free.
C10_SampleLine3AsBuilt ==
    (L3Done /\ l3.t = SampleInput) =>
        stripAnsi(l3.out.brickLine) =
            <<"[">> \o Repeat(<<"#">>, 12) \o Repeat(<<"o">>, 18) \o <<"]">>
            \o <<" ", "4", "3", "%">>
            \o <<" ", "|", " ", "1", "1", "2", "k", " ", "f", "r", "e", "e">>
            \o <<" ", "|", " ", "0", "h", "1", "2", "m">>
            \o <<" ", "|", " ", "$", "0", ".", "8", "7">>


\* ------------------------------- Line 3: the two forms of the usage input

\* The used share of the window is drawn in thousandths, 0..MaxUsedPermille.
MaxUsedPermille == 1000

\* The window sizes the two forms are compared on: on 1000 every token count
\* is a whole number of tenths of a percent.
UsageTotals == {1000, 200000}

\* Lines 530-533: usedTokens from the raw counts of current_usage, each
\* Number(x) || 0.
SumUsage(cu) ==
    NumberOr(cu.input_tokens, 0) + NumberOr(cu.cache_creation_input_tokens, 0)
    + NumberOr(cu.cache_read_input_tokens, 0)

\* Raw counts that sum to u.
RawCounts(split, u) ==
    IF split = "input_only"
    THEN [input_tokens |-> Field(u), cache_creation_input_tokens |-> Missing,
          cache_read_input_tokens |-> Missing]
    ELSE IF split = "cache_only"
    THEN [input_tokens |-> Field(0), cache_creation_input_tokens |-> Field(u),
          cache_read_input_tokens |-> Missing]
    ELSE [input_tokens |-> Field(u - 2 * (u \div 3)),
          cache_creation_input_tokens |-> Field(u \div 3),
          cache_read_input_tokens |-> Field(u \div 3)]

\* The input of a render of u used tokens out of total, in form "percentage"
\* (used_percentage = 100*u/total and remaining_percentage = 100 - it, in
\* tenths of a percent) or as raw counts.
UsageInput(form, total, permille) ==
    [size |-> Field(total),
     usedPct |-> IF form = "percentage" THEN Field(permille) ELSE Missing,
     remainingPct |-> IF form = "percentage" THEN Field(1000 - permille) ELSE Missing,
     currentUsage |-> IF form = "percentage" THEN Missing
                      ELSE Field(SumUsage(RawCounts(form, (permille * total) \div 1000))),
     durationMs |-> Missing, cost |-> Missing, envBricks |-> Missing, envWidth |-> 0]

UsageForms == {"percentage", "input_only", "cache_only", "three_way"}

InitUsage ==
    /\ now = TimeUnitMs
    /\ cacheFile = NoFile
    /\ last = NoRender
    /\ persisted = {}
    /\ render = RenderIdle
    /\ race = RaceIdle
    /\ l1 = L1Idle
    /\ \E form \in UsageForms, total \in UsageTotals, permille \in 0..MaxUsedPermille :
           l3 = [pc |-> "input", t |-> UsageInput(form, total, permille),
                 out |-> NoLine3, form |-> form, total |-> total,
                 u |-> (permille * total) \div 1000]

SpecUsage == InitUsage /\ [][NextLine3]_vars

\* C11: for every total > 0 and used count u, the render given the
\* pre-computed percentage fields and the render given raw token counts
\* summing to u both display the integer percentage floor(100*u/total).
C11_PercentageFormsAgree ==
    L3Done => l3.out.usagePct = (100 * l3.u) \div l3.total

\* Both forms rendered 87000 of 200000 tokens (43.5%) as 43%.
C11_Witness ==
    /\ L3Done
    /\ l3.form = "percentage"
    /\ l3.total = 200000 /\ l3.u = 87000
    /\ l3.out.usagePct = 43
    /\ mainLine3(UsageInput("three_way", 200000, 435)).usagePct = 43


\* ------------------------------------------------ credential resolution

\* A string token of a credentials document: n numbers the string, 0 the
\* empty string.
Str(n) == Tok("str", n)
NEWLINE == Tok("\n", 0)
TokenNames == <<"keychain-token", "file-token">>
\* The access token as the rest of the render holds it; "" is no token.
TokenText(n) == IF n = 0 THEN "" ELSE TokenNames[n]

\* result.stdout.trim() of line 134.
RECURSIVE TrimText(_)
TrimText(s) ==
    IF s # <<>> /\ s[1] = NEWLINE THEN TrimText(Tail(s))
    ELSE IF s # <<>> /\ s[Len(s)] = NEWLINE THEN TrimText(SubSeq(s, 1, Len(s) - 1))
    ELSE s

CredsFail == [ok |-> FALSE, hasToken |-> FALSE, token |-> 0, next |-> 0]

\* The value of the claudeAiOauth member, at token i of s: an object with or
\* without a string accessToken.
ParseOauth(s, i) ==
    IF i + 1 <= Len(s) /\ s[i] = LBRACE /\ s[i + 1] = RBRACE
    THEN [ok |-> TRUE, hasToken |-> FALSE, token |-> 0, next |-> i + 2]
    ELSE IF i + 3 <= Len(s) /\ s[i] = LBRACE /\ s[i + 1] = Key("accessToken")
            /\ s[i + 2].k = "str" /\ s[i + 3] = RBRACE
    THEN [ok |-> TRUE, hasToken |-> TRUE, token |-> s[i + 2].n, next |-> i + 4]
    ELSE CredsFail

\* The document whose claudeAiOauth member parsed as o, when the closing brace
\* ends it.
CredsEnd(s, o) ==
    IF o.ok /\ o.next = Len(s) /\ s[o.next] = RBRACE
    THEN [ok |-> TRUE, hasToken |-> o.hasToken, token |-> o.token, next |-> 0]
    ELSE CredsFail

\* JSON.parse of a credentials document (lines 134 and 146): null, {} or an
\* object with a claudeAiOauth member; ok is FALSE where it throws.
ParseCreds(s) ==
    IF s = <<NULLTOK>> \/ s = <<LBRACE, RBRACE>>
    THEN [ok |-> TRUE, hasToken |-> FALSE, token |-> 0, next |-> 0]
    ELSE IF Len(s) >= 2 /\ s[1] = LBRACE /\ s[2] = Key("claudeAiOauth")
    THEN CredsEnd(s, ParseOauth(s, 3))
    ELSE CredsFail

\* getPath(creds, 'claudeAiOauth.accessToken') of the parsed document, "" when
\* it is undefined, empty, or JSON.parse threw.
AccessToken(creds) ==
    IF creds.ok /\ creds.hasToken THEN TokenText(creds.token) ELSE ""

\* Lines 122-140: the token the keychain yields, "" when the call failed, its
\* output is not JSON (the inner catch) or holds no token.
KeychainToken(store) ==
    IF store.status = "0" /\ store.stdout # <<>>
    THEN AccessToken(ParseCreds(TrimText(store.stdout)))
    ELSE ""

\* Lines 144-150: the token of ~/.claude/.credentials.json, "" when reading
\* or parsing throws (the outer catch) or it holds no token.
FileToken(file) ==
    IF file.exists THEN AccessToken(ParseCreds(file.text)) ELSE ""

Resolved(token, storeUsed, fileRead) ==
    [token |-> token, storeUsed |-> storeUsed, fileRead |-> fileRead]

\* Line 136: if (token) return token; else the credentials file.
KeychainFirst(token, file) ==
    IF token # "" THEN Resolved(token, TRUE, FALSE)
    ELSE Resolved(FileToken(file), TRUE, TRUE)

\* Mutant: a keychain payload that is not JSON ends in the outer catch.
readOAuthTokenUnguarded(platform, store, file) ==
    IF platform = "darwin" /\ store.status = "0" /\ store.stdout # <<>>
       /\ ~ParseCreds(TrimText(store.stdout)).ok
    THEN Resolved("", TRUE, FALSE)
    ELSE IF platform = "darwin" THEN KeychainFirst(KeychainToken(store), file)
    ELSE Resolved(FileToken(file), FALSE, TRUE)

\* readOAuthToken, lines 118-151.
readOAuthToken(platform, store, file) ==
    IF platform = "darwin" THEN KeychainFirst(KeychainToken(store), file)
    ELSE Resolved(FileToken(file), FALSE, TRUE)

\* ------------------------------------- inputs of credential resolution

Platforms == {"darwin", "linux", "win32"}

CredsDoc(n) ==
    <<LBRACE, Key("claudeAiOauth"), LBRACE, Key("accessToken"), Str(n), RBRACE, RBRACE>>

\* What `security find-generic-password` ends with: label says what the
\* claim calls it, token the access token its payload carries (0: none).
Store(label, status, stdout, token) ==
    [label |-> label, status |-> status, stdout |-> stdout, token |-> token]

StoreResults ==
    {Store("failed", "enoent", <<>>, 0),
     Store("failed", "44", <<>>, 0),
     Store("failed", "null", <<>>, 0),
     Store("failed", "0", <<>>, 0),
     Store("unparsable", "0", <<GARBAGE, NEWLINE>>, 0),
     Store("unparsable", "0", <<LBRACE, Key("claudeAiOauth"), NEWLINE>>, 0),
     Store("no_token", "0", <<NULLTOK, NEWLINE>>, 0),
     Store("no_token", "0", <<LBRACE, RBRACE, NEWLINE>>, 0),
     Store("no_token", "0",
           <<LBRACE, Key("claudeAiOauth"), LBRACE, RBRACE, RBRACE, NEWLINE>>, 0),
     Store("no_token", "0", CredsDoc(0) \o <<NEWLINE>>, 0),
     Store("token", "0", CredsDoc(1) \o <<NEWLINE>>, 1)}

\* The store is not consulted.
NoStore == Store("none", "none", <<>>, 0)

CredFile(label, exists, text, token) ==
    [label |-> label, exists |-> exists, text |-> text, token |-> token]

CredFiles ==
    {CredFile("missing", FALSE, <<>>, 0),
     CredFile("unparsable", TRUE, <<>>, 0),
     CredFile("unparsable", TRUE, <<GARBAGE>>, 0),
     CredFile("no_token", TRUE, <<LBRACE, RBRACE>>, 0),
     CredFile("no_token", TRUE, CredsDoc(0), 0),
     CredFile("token", TRUE, CredsDoc(2), 2)}

NoToken == Resolved("", FALSE, FALSE)

InitCred ==
    /\ now = TimeUnitMs
    /\ cacheFile = NoFile
    /\ last = NoRender
    /\ persisted = {}
    /\ race = RaceIdle
    /\ l1 = L1Idle
    /\ l3 = L3Idle
    /\ \E platform \in Platforms, store \in StoreResults, file \in CredFiles :
           render = [pc |-> "token", platform |-> platform, store |-> store,
                     file |-> file, res |-> NoToken]

\* Line 585: const token = readOAuthToken().
ResolveToken ==
    /\ render.pc = "token"
    /\ render' = [render EXCEPT
                     !.pc = "resolved",
                     !.res = readOAuthToken(render.platform, render.store, render.file)]
    /\ UNCHANGED <<now, cacheFile, last, persisted, l1, l3, race>>

NextCred == ResolveToken

SpecCred == InitCred /\ [][NextCred]_vars

\* ------------------------------------- claims on credential resolution

TokenResolved == render.pc = "resolved"

\* C20: on darwin a secure-store payload that is JSON with an access token
\* gives that token; a failed store call, an unparsable payload or one without
\* a token falls through to the credentials file, whose token is returned
\* (none if the file is missing, unparsable or has no token). On every other
\* platform the store is not consulted and only the file decides.
C20_CredentialResolution ==
    TokenResolved =>
        IF render.platform = "darwin" /\ render.store.label = "token"
        THEN /\ render.res.token = TokenText(render.store.token)
             /\ render.res.storeUsed /\ ~render.res.fileRead
        ELSE /\ render.res.token = TokenText(render.file.token)
             /\ render.res.fileRead
             /\ render.res.storeUsed <=> render.platform = "darwin"

\* On darwin the store's payload was not JSON and the file's token was used.
C20_Witness ==
    /\ TokenResolved
    /\ render.platform = "darwin"
    /\ render.store.label = "unparsable"
    /\ render.file.label = "token"
    /\ render.res.token = "file-token"


\* ------------------------------------------------------ the git facts

\* Paths are sequences of components, an absolute one starting with ROOT.
ROOT == <<"/">>
S_git == <<".", "g", "i", "t">>
S_up == <<".", ".">>
S_detached == <<"d", "e", "t", "a", "c", "h", "e", "d">>

RECURSIVE JoinSlash(_)
JoinSlash(p) ==
    IF p = <<>> THEN <<>>
    ELSE IF Len(p) = 1 THEN p[1]
    ELSE p[1] \o <<"/">> \o JoinSlash(Tail(p))

\* The text of a path.
PathText(p) ==
    IF p # <<>> /\ p[1] = ROOT THEN <<"/">> \o JoinSlash(Tail(p)) ELSE JoinSlash(p)

RECURSIVE Normalize(_, _)
Normalize(acc, rest) ==
    IF rest = <<>> THEN acc
    ELSE IF rest[1] = S_up /\ Len(acc) > 1
    THEN Normalize(SubSeq(acc, 1, Len(acc) - 1), Tail(rest))
    ELSE IF rest[1] = S_up THEN Normalize(acc, Tail(rest))
    ELSE Normalize(Append(acc, rest[1]), Tail(rest))

\* path.resolve(cwd, p), cwd absolute.
pathResolve(cwd, p) ==
    IF p # <<>> /\ p[1] = ROOT THEN Normalize(<<ROOT>>, Tail(p))
    ELSE Normalize(cwd, p)

\* path.basename and path.dirname of an absolute path.
pathBasename(p) == IF Len(p) <= 1 THEN <<>> ELSE p[Len(p)]
pathDirname(p) == IF Len(p) <= 1 THEN p ELSE SubSeq(p, 1, Len(p) - 1)

\* path.relative(from, to) for a directory to at or below from.
pathRelative(from, to) ==
    IF Len(from) <= Len(to) /\ SubSeq(to, 1, Len(from)) = from
    THEN JoinSlash(SubSeq(to, Len(from) + 1, Len(to)))
    ELSE S_up

\* Number(s) || 0 for the text s of a count.
RECURSIVE DigitsValue(_, _)
DigitsValue(s, acc) ==
    IF s = <<>> THEN acc
    ELSE IF \E d \in 1..10 : DigitChars[d] = s[1]
    THEN DigitsValue(Tail(s), 10 * acc + (CHOOSE d \in 1..10 : DigitChars[d] = s[1]) - 1)
    ELSE 0
NumberOfText(s) == DigitsValue(s, 0)

\* git(args, cwd, fallback), lines 71-87: result is what spawnSync returned;
\* stdout is held without the trailing newline that trim() removes.
git(result, fallback) ==
    IF result.status = "0" /\ result.stdout # <<>> THEN result.stdout ELSE fallback

GitCallNames ==
    {"git_dir", "toplevel", "branch", "common_dir", "commit_short", "commit_msg",
     "porcelain", "upstream", "ahead", "behind"}

\* What spawnSync('git', ...) returns for call: the text git prints when the
\* call goes well, else no output and the status of the failure ("enoent": no
\* git, "128": non-zero exit, "null": killed at the timeout).
spawnGit(e, call) ==
    IF e.outcome[call] = "ok" THEN [status |-> "0", stdout |-> e.repo[call]]
    ELSE [status |-> e.failKind, stdout |-> <<>>]

\* Lines 372-379: outside a repository.
NoGitFacts ==
    [repoName |-> <<>>, worktreeName |-> <<>>, branch |-> <<>>, subDir |-> <<>>,
     dirty |-> FALSE, ahead |-> 0, behind |-> 0, commitShort |-> <<>>,
     commitMsg |-> <<>>, calls |-> {"git_dir"}]

\* Lines 387-397: inside a linked worktree.
isWorktree(cwd, gitDir, commonDir) ==
    commonDir # <<>> /\ pathResolve(cwd, gitDir) # pathResolve(cwd, commonDir)

\* Lines 384-397: repoName and worktreeName.
repoNameOf(cwd, gitDir, commonDir, toplevel) ==
    IF isWorktree(cwd, gitDir, commonDir)
    THEN pathBasename(pathDirname(pathResolve(cwd, commonDir)))
    ELSE pathBasename(toplevel)

worktreeNameOf(cwd, gitDir, commonDir, toplevel) ==
    IF isWorktree(cwd, gitDir, commonDir) THEN pathBasename(toplevel) ELSE <<>>

\* Lines 399-405: the subdirectory relative to the repository root.
subDirOf(showDir, toplevel, cwd) ==
    IF showDir /\ toplevel # <<>> /\ pathRelative(toplevel, cwd) \notin {<<>>, <<".">>}
    THEN pathRelative(toplevel, cwd)
    ELSE <<>>

\* Lines 418-424: the count of a rev-list call made only with an upstream.
countOf(e, upstream, call) ==
    IF upstream # <<>> THEN NumberOfText(git(spawnGit(e, call), <<>>)) ELSE 0

\* Lines 383-424: the facts inside a repository.
repoFactsOf(e, gitDir, commonDir, toplevel, branch, upstream) ==
    [repoName |-> repoNameOf(e.cwd, gitDir, commonDir, toplevel),
     worktreeName |-> worktreeNameOf(e.cwd, gitDir, commonDir, toplevel),
     branch |-> IF branch # <<>> THEN branch ELSE S_detached,
     subDir |-> subDirOf(e.showDir, toplevel, e.cwd),
     dirty |-> git(spawnGit(e, "porcelain"), <<>>) # <<>>,
     ahead |-> countOf(e, upstream, "ahead"),
     behind |-> countOf(e, upstream, "behind"),
     commitShort |-> git(spawnGit(e, "commit_short"), <<>>),
     commitMsg |-> git(spawnGit(e, "commit_msg"), <<>>),
     calls |-> (GitCallNames \ {"ahead", "behind"})
               \cup (IF upstream # <<>> THEN {"ahead", "behind"} ELSE {})]

\* Mutant: a failed show-toplevel call aborts the collection of the rest.
collectFromAbortsWithoutToplevel(e, gitDir) ==
    IF gitDir = <<>> THEN NoGitFacts
    ELSE IF git(spawnGit(e, "toplevel"), <<>>) = <<>>
    THEN [NoGitFacts EXCEPT !.calls = GitCallNames \ {"ahead", "behind"}]
    ELSE repoFactsOf(e, gitDir,
                     git(spawnGit(e, "common_dir"), <<>>),
                     git(spawnGit(e, "toplevel"), <<>>),
                     git(spawnGit(e, "branch"), <<>>),
                     git(spawnGit(e, "upstream"), <<>>))

\* Lines 381-425: the collection of the git facts.
collectFrom(e, gitDir) ==
    IF gitDir = <<>> THEN NoGitFacts
    ELSE repoFactsOf(e, gitDir,
                     git(spawnGit(e, "common_dir"), <<>>),
                     git(spawnGit(e, "toplevel"), <<>>),
                     git(spawnGit(e, "branch"), <<>>),
                     git(spawnGit(e, "upstream"), <<>>))

collectGit(e) == collectFrom(e, git(spawnGit(e, "git_dir"), <<>>))

\* Lines 488-498: Line 2.
line2Of(commitShort, commitMsg, termWidth) ==
    IF commitShort = <<>> THEN <<>>
    ELSE c_yellow \o <<"[">> \o commitShort \o <<"]">> \o c_reset
         \o (IF commitMsg = <<>> THEN <<>>
             ELSE IF Len(commitMsg) > Max(10, termWidth - (Len(commitShort) + 3) - 3)
             THEN <<" ">>
                  \o SubSeq(commitMsg, 1, Max(10, termWidth - (Len(commitShort) + 3) - 3))
                  \o <<".", ".", ".">>
             ELSE <<" ">> \o commitMsg)

\* Lines 341-359 and 432-461: what Line 1 is built from, given the git facts.
line1FactsOf(e, facts) ==
    [displayName |-> <<>>, cwd |-> PathText(e.cwd), home |-> S_home,
     showDir |-> e.showDir, repoName |-> facts.repoName,
     worktreeName |-> facts.worktreeName, branch |-> facts.branch,
     subDir |-> facts.subDir, dirty |-> facts.dirty, ahead |-> facts.ahead,
     behind |-> facts.behind, linesAdded |-> 0, linesRemoved |-> 0,
     envWidth |-> 0, basePadding |-> 0, isVSCode |-> FALSE, remainingPct |-> 50]

\* Lines 369-498 of main: the git facts, Line 1 and Line 2.
withLines12(e, facts) ==
    [facts |-> facts,
     line1 |-> mainLine1(line1FactsOf(e, facts)).line1,
     line2 |-> line2Of(facts.commitShort, facts.commitMsg, termWidthOf(0, 0, 0))]

mainLines12(e) == withLines12(e, collectGit(e))

\* ------------------------------------------------ inputs of the git facts

S_hash == <<"a", "b", "c", "1", "2", "3", "4">>
S_msg == <<"f", "i", "x", " ", "b", "u", "g">>
S_origin == <<"o", "r", "i", "g", "i", "n", "/", "m", "a", "i", "n">>
S_porcelain == <<" ", "M", " ", "f">>
S_worktrees == <<"w", "o", "r", "k", "t", "r", "e", "e", "s">>

\* Where the render runs and what git prints there: the root of a repository,
\* a subdirectory of it, a linked worktree.
GitLayouts ==
    {[cwd |-> <<ROOT, <<"h">>, S_app>>, git_dir |-> <<S_git>>,
      common_dir |-> <<S_git>>, toplevel |-> <<ROOT, <<"h">>, S_app>>],
     [cwd |-> <<ROOT, <<"h">>, S_app, S_src>>, git_dir |-> <<ROOT, <<"h">>, S_app, S_git>>,
      common_dir |-> <<S_up, S_git>>, toplevel |-> <<ROOT, <<"h">>, S_app>>],
     [cwd |-> <<ROOT, <<"h">>, S_fix>>,
      git_dir |-> <<ROOT, <<"h">>, S_app, S_git, S_worktrees, S_fix>>,
      common_dir |-> <<ROOT, <<"h">>, S_app, S_git>>,
      toplevel |-> <<ROOT, <<"h">>, S_fix>>]}

\* The state of the checkout: on a branch with local changes and two commits
\* ahead, or on a detached HEAD and clean.
GitCheckouts ==
    {[branch |-> S_main, porcelain |-> S_porcelain, ahead |-> <<"2">>, behind |-> <<"0">>],
     [branch |-> <<>>, porcelain |-> <<>>, ahead |-> <<"0">>, behind |-> <<"1">>]}

RepoOf(layout, checkout) ==
    [git_dir |-> layout.git_dir, toplevel |-> layout.toplevel,
     branch |-> checkout.branch, common_dir |-> layout.common_dir,
     commit_short |-> S_hash, commit_msg |-> S_msg,
     porcelain |-> checkout.porcelain, upstream |-> S_origin,
     ahead |-> checkout.ahead, behind |-> checkout.behind]

GitFailKinds == {"enoent", "128", "null"}

GitEnvs ==
    {[cwd |-> layout.cwd, showDir |-> showDir, repo |-> RepoOf(layout, checkout),
      outcome |-> outcome, failKind |-> failKind] :
        layout \in GitLayouts, checkout \in GitCheckouts, showDir \in BOOLEAN,
        outcome \in [GitCallNames -> {"ok", "fail"}], failKind \in GitFailKinds}

NoLines12 == [facts |-> NoGitFacts, line1 |-> <<>>, line2 |-> <<>>]

InitGit ==
    /\ now = TimeUnitMs
    /\ cacheFile = NoFile
    /\ last = NoRender
    /\ persisted = {}
    /\ race = RaceIdle
    /\ l1 = L1Idle
    /\ l3 = L3Idle
    /\ \E e \in GitEnvs : render = [pc |-> "git", e |-> e, out |-> NoLines12]

\* The render collects the git facts and builds Line 1 and Line 2.
CollectGit ==
    /\ render.pc = "git"
    /\ render' = [render EXCEPT !.pc = "lines", !.out = mainLines12(render.e)]
    /\ UNCHANGED <<now, cacheFile, last, persisted, l1, l3, race>>

NextGit == CollectGit

SpecGit == InitGit /\ [][NextGit]_vars

\* ------------------------------------------------ claims on the git facts

GitDone == render.pc = "lines"

\* The call was made and went well; the call was made and failed.
GitOk(call) == call \in render.out.facts.calls /\ render.e.outcome[call] = "ok"
GitFailed(call) == call \in render.out.facts.calls /\ render.e.outcome[call] = "fail"

\* The text occurs on the line, colors aside.
Shown(line, text) == IndexOf(stripAnsi(line), text) # 0

\* A failed call leaves its fact at the fallback.
FallbackWhereFailed ==
    /\ GitFailed("branch") => render.out.facts.branch = S_detached
    /\ GitFailed("ahead") => render.out.facts.ahead = 0
    /\ GitFailed("behind") => render.out.facts.behind = 0
    /\ GitFailed("commit_short") => render.out.facts.commitShort = <<>>
    /\ GitFailed("commit_msg") => render.out.facts.commitMsg = <<>>
    /\ GitFailed("porcelain") => ~render.out.facts.dirty

\* C17: a failed git call degrades only its own fact to the fallback and
\* never aborts the render; every other fact whose own call succeeded is
\* collected with its value and shown on Line 1 or Line 2.
C17_OtherFactsStillShown ==
    GitDone =>
        /\ render.out.line1 # <<>>
        /\ FallbackWhereFailed
        /\ GitOk("toplevel") =>
               Shown(render.out.line1, pathBasename(render.e.repo.toplevel))
        /\ GitOk("branch") =>
               /\ render.out.facts.branch
                      = (IF render.e.repo.branch # <<>> THEN render.e.repo.branch
                         ELSE S_detached)
               /\ Shown(render.out.line1, <<":">> \o render.out.facts.branch)
        /\ (GitOk("porcelain") /\ render.e.repo.porcelain # <<>>) =>
               Shown(render.out.line1, <<"*">>)
        /\ (GitOk("ahead") /\ NumberOfText(render.e.repo.ahead) > 0) =>
               Shown(render.out.line1, <<"^">> \o render.e.repo.ahead)
        /\ GitOk("commit_short") =>
               Shown(render.out.line2, <<"[">> \o S_hash \o <<"]">>)
        /\ GitOk("commit_msg") =>
               /\ render.out.facts.commitMsg = S_msg
               /\ Shown(render.out.line2, S_msg)

\* C17 amended: a failed git call leaves its own fact at the fallback and
\* never aborts the render; every fact whose call succeeded is collected with
\* its value; the repository name, the dirty / ahead marker and the commit
\* hash are shown, the branch only next to a repository name and the commit
\* subject only after a commit hash.
C17_FactsCollected ==
    GitDone =>
        /\ render.out.line1 # <<>>
        /\ FallbackWhereFailed
        /\ GitOk("toplevel") =>
               Shown(render.out.line1, pathBasename(render.e.repo.toplevel))
        /\ GitOk("branch") =>
               render.out.facts.branch
                   = (IF render.e.repo.branch # <<>> THEN render.e.repo.branch
                      ELSE S_detached)
        /\ (GitOk("branch") /\ render.out.facts.repoName # <<>>) =>
               Shown(render.out.line1, <<":">> \o render.out.facts.branch)
        /\ (GitOk("porcelain") /\ render.e.repo.porcelain # <<>>) =>
               Shown(render.out.line1, <<"*">>)
        /\ (GitOk("ahead") /\ NumberOfText(render.e.repo.ahead) > 0) =>
               Shown(render.out.line1, <<"^">> \o render.e.repo.ahead)
        /\ GitOk("commit_short") =>
               Shown(render.out.line2, <<"[">> \o S_hash \o <<"]">>)
        /\ GitOk("commit_msg") => render.out.facts.commitMsg = S_msg
        /\ (GitOk("commit_msg") /\ GitOk("commit_short")) =>
               Shown(render.out.line2, S_msg)

\* The show-toplevel call was killed at its timeout: the branch was collected
\* but is not shown, the marker and the commit are.
C17_Witness ==
    /\ GitDone
    /\ render.e.failKind = "null"
    /\ GitFailed("toplevel")
    /\ \A call \in GitCallNames \ {"toplevel"} : GitOk(call)
    /\ render.out.facts.branch = S_main
    /\ ~Shown(render.out.line1, S_main)
    /\ Shown(render.out.line1, <<"*", "^", "2">>)
    /\ Shown(render.out.line2, S_msg)


\* ------------------------------------------------- one render, step by step

\* spawnSync timeouts: git (line 76), the keychain lookup (line 129), the
\* usage fetch (line 212).
GIT_TIMEOUT_MS == 5000
KEYCHAIN_TIMEOUT_MS == 3000
FETCH_TIMEOUT_MS == 4000
\* The clock step while the render waits in spawnSync.
WaitStepMs == 1000

TimeoutOf(kind) ==
    CASE kind = "git" -> GIT_TIMEOUT_MS
      [] kind = "keychain" -> KEYCHAIN_TIMEOUT_MS
      [] kind = "fetch" -> FETCH_TIMEOUT_MS

\* The lines main() writes.
DIAG_NO_INPUT == "ContextBricks: no input"
DIAG_INVALID_JSON == "ContextBricks: invalid JSON"

\* What stdin holds: nothing, text that is not JSON, or a JSON object whose
\* model.display_name is missing, a string or a number, with or without a
\* _mock_rate_limits payload.
DisplayNames == {"missing", "string", "number"}
Stdin(kind, displayName, mockData) ==
    [kind |-> kind, displayName |-> displayName, mockData |-> mockData]
MainInputs ==
    {Stdin("empty", "missing", Undefined), Stdin("garbage", "missing", Undefined)}
    \cup {Stdin("json", d, m) : d \in DisplayNames, m \in Mocks}

MainPlatforms == {"darwin", "linux"}

\* No subprocess is running.
NoCall == [kind |-> "none", ends |-> "none", elapsed |-> 0]
\* spawnSync(...) has started a subprocess, which returns or hangs.
Call(kind, ends) == [kind |-> kind, ends |-> ends, elapsed |-> 0]
CallEnds == {"returns", "hangs"}

\* The git calls of lines 381-425, in order; what follows each, given whether
\* it yielded a value (got) or its fallback.
AfterGitCall(name, got) ==
    CASE name = "git_dir" -> IF got THEN "toplevel" ELSE "end"
      [] name = "toplevel" -> "branch"
      [] name = "branch" -> "common_dir"
      [] name = "common_dir" -> "commit_short"
      [] name = "commit_short" -> "commit_msg"
      [] name = "commit_msg" -> "porcelain"
      [] name = "porcelain" -> "upstream"
      [] name = "upstream" -> IF got THEN "ahead" ELSE "end"
      [] name = "ahead" -> "behind"
      [] name = "behind" -> "end"

\* Lines 576-580: Line 1, Line 2 if there is one, the bricks line.
linesWritten(commitShort) ==
    <<"line1">> \o (IF commitShort THEN <<"line2">> ELSE <<>>) \o <<"line3">>

\* Lines 588-590: Line 4 is written if formatRateLimitLine gave a line.
withLine4(out, line4) == IF line4 # <<>> THEN out \o <<"line4">> ELSE out

\* The operations a rate-limit path r performed on the cache file before.
usageOps(r, before) ==
    (IF r.reads > 0 THEN {"cache_read"} ELSE {})
    \cup (IF r.fetched THEN {"fetch"} ELSE {})
    \cup (IF r.file # before THEN {"cache_write"} ELSE {})

RenderStart(stdin, showLimits, platform) ==
    [pc |-> "stdin", stdin |-> stdin, showLimits |-> showLimits,
     platform |-> platform, gitAt |-> "git_dir", call |-> NoCall,
     commitShort |-> FALSE, token |-> "", out |-> <<>>, ops |-> {},
     segments |-> 0]

InitMain ==
    /\ now \in {TimeUnitMs, 3 * TimeUnitMs}
    /\ cacheFile \in {NoFile, FileOf(StringifyEntry(TimeUnitMs, P2))}
    /\ last = NoRender
    /\ persisted = {}
    /\ race = RaceIdle
    /\ l1 = L1Idle
    /\ l3 = L3Idle
    /\ \E stdin \in MainInputs, showLimits \in BOOLEAN, platform \in MainPlatforms :
           render = RenderStart(stdin, showLimits, platform)

MainRest == <<now, last, persisted, l1, l3, race>>

\* Mutant: unparsable input is rendered as an empty object.
ReadInputRendersAnyway ==
    /\ render.pc = "stdin"
    /\ render' =
         IF render.stdin.kind = "empty"
         THEN [render EXCEPT !.pc = "done", !.out = <<DIAG_NO_INPUT>>]
         ELSE IF render.stdin.displayName = "number"
         THEN [render EXCEPT !.pc = "crashed"]
         ELSE [render EXCEPT !.pc = "git"]
    /\ UNCHANGED <<cacheFile, MainRest>>

\* Lines 320-341: read stdin; no input and unparsable input each end the
\* render with one line; model.display_name.replace(...) of line 341 throws
\* on a display_name that is not a string, and nothing catches it (line 594).
ReadInput ==
    /\ render.pc = "stdin"
    /\ render' =
         IF render.stdin.kind = "empty"
         THEN [render EXCEPT !.pc = "done", !.out = <<DIAG_NO_INPUT>>]
         ELSE IF render.stdin.kind = "garbage"
         THEN [render EXCEPT !.pc = "done", !.out = <<DIAG_INVALID_JSON>>]
         ELSE IF render.stdin.displayName = "number"
         THEN [render EXCEPT !.pc = "crashed"]
         ELSE [render EXCEPT !.pc = "git"]
    /\ UNCHANGED <<cacheFile, MainRest>>

\* git(...), line 74: spawnSync starts the next git subprocess.
StartGit ==
    /\ render.pc = "git"
    /\ \E ends \in CallEnds :
           render' = [render EXCEPT !.pc = "call", !.call = Call("git", ends),
                                    !.ops = @ \cup {"git"}]
    /\ UNCHANGED <<cacheFile, MainRest>>

\* The render is blocked in spawnSync while the subprocess runs.
Wait ==
    /\ render.pc = "call"
    /\ render.call.elapsed < TimeoutOf(render.call.kind)
    /\ render' = [render EXCEPT !.call.elapsed = @ + WaitStepMs]
    /\ UNCHANGED <<cacheFile, MainRest>>

\* Lines 77-86 and the git facts that gate later calls: got is whether the
\* call exited 0 with output.
gitReturned(got) ==
    /\ render' =
         [render EXCEPT
            !.pc = IF AfterGitCall(render.gitAt, got) = "end" THEN "output" ELSE "git",
            !.gitAt = AfterGitCall(render.gitAt, got),
            !.call = NoCall,
            !.commitShort = IF render.gitAt = "commit_short" THEN got ELSE @]
    /\ UNCHANGED <<cacheFile, MainRest>>

\* Lines 133-150 after the keychain call ended with store: the token is that
\* of the store or of the credentials file.
keychainReturned(store) ==
    /\ \E file \in CredFiles :
         \E res \in {readOAuthToken(render.platform, store, file)} :
           render' = [render EXCEPT
                         !.pc = "usage", !.call = NoCall, !.token = res.token,
                         !.ops = @ \cup (IF res.fileRead THEN {"credfile"} ELSE {})]
    /\ UNCHANGED <<cacheFile, MainRest>>

\* Lines 586-590 with the rate-limit path r.
usageDone(r) ==
    /\ render' = [render EXCEPT
                     !.pc = "done", !.call = NoCall,
                     !.out = withLine4(@, r.line4),
                     !.segments = Len(r.line4),
                     !.ops = @ \cup usageOps(r, cacheFile)]
    /\ cacheFile' = r.file
    /\ UNCHANGED MainRest

\* Lines 216-239 after the fetch ended as run.
fetchReturned(run) ==
    \E writeOk \in BOOLEAN :
      \E r \in {mainLine4(TRUE, render.token, render.stdin.mockData, cacheFile,
                          now, run, writeOk)} :
        /\ ~writeOk => r.outcome = "fetched"
        /\ usageDone(r)

\* The subprocess ends before its timeout.
CallReturns ==
    /\ render.pc = "call"
    /\ render.call.ends = "returns"
    /\ render.call.elapsed < TimeoutOf(render.call.kind)
    /\ CASE render.call.kind = "git" -> \E got \in BOOLEAN : gitReturned(got)
         [] render.call.kind = "keychain" ->
              \E store \in {s \in StoreResults : s.status # "null"} :
                  keychainReturned(store)
         [] render.call.kind = "fetch" ->
              \E run \in {u \in Runs : u.kind # "hang"} : fetchReturned(run)

\* spawnSync kills the subprocess at its timeout: status is null, and the
\* caller takes its fallback.
CallKilled ==
    /\ render.pc = "call"
    /\ render.call.elapsed >= TimeoutOf(render.call.kind)
    /\ CASE render.call.kind = "git" -> gitReturned(FALSE)
         [] render.call.kind = "keychain" ->
              keychainReturned(Store("failed", "null", <<>>, 0))
         [] render.call.kind = "fetch" -> fetchReturned(Run("hang", 0, <<>>))

\* Mutant: Lines 1 to 3 are held back until the rate-limit path is through.
WriteLinesDeferred ==
    /\ render.pc = "output"
    /\ render' = [render EXCEPT
                     !.pc = IF render.showLimits THEN "token" ELSE "done",
                     !.out = IF render.showLimits THEN <<>>
                             ELSE linesWritten(render.commitShort)]
    /\ UNCHANGED <<cacheFile, MainRest>>

\* Lines 576-580.
WriteLines ==
    /\ render.pc = "output"
    /\ render' = [render EXCEPT
                     !.pc = IF render.showLimits THEN "token" ELSE "done",
                     !.out = linesWritten(render.commitShort)]
    /\ UNCHANGED <<cacheFile, MainRest>>

\* Lines 122-131: on darwin the keychain is asked first.
StartKeychain ==
    /\ render.pc = "token"
    /\ render.platform = "darwin"
    /\ \E ends \in CallEnds :
           render' = [render EXCEPT !.pc = "call", !.call = Call("keychain", ends),
                                    !.ops = @ \cup {"keychain"}]
    /\ UNCHANGED <<cacheFile, MainRest>>

\* Lines 142-150: elsewhere only the credentials file is read.
ReadCredentialsFile ==
    /\ render.pc = "token"
    /\ render.platform # "darwin"
    /\ keychainReturned(NoStore)

\* Whether fetchUsageData gets as far as spawning the fetch (line 207).
needsFetch ==
    fetchUsageData(render.token, render.stdin.mockData, cacheFile, now,
                   Run("hang", 0, <<>>), TRUE).fetched

\* Lines 207-214: the fetch subprocess is started.
StartFetch ==
    /\ render.pc = "usage"
    /\ needsFetch
    /\ \E ends \in CallEnds :
           render' = [render EXCEPT !.pc = "call", !.call = Call("fetch", ends)]
    /\ UNCHANGED <<cacheFile, MainRest>>

\* Lines 156-173: mock payload, no token, or a fresh cache entry.
UsageWithoutFetch ==
    /\ render.pc = "usage"
    /\ ~needsFetch
    /\ \E r \in {mainLine4(TRUE, render.token, render.stdin.mockData, cacheFile,
                           now, NoRun, TRUE)} : usageDone(r)

NextMain ==
    \/ ReadInput
    \/ StartGit
    \/ Wait
    \/ CallReturns
    \/ CallKilled
    \/ WriteLines
    \/ StartKeychain
    \/ ReadCredentialsFile
    \/ StartFetch
    \/ UsageWithoutFetch

SpecMain == InitMain /\ [][NextMain]_vars

\* The render is one process that runs until it exits: it is never suspended
\* forever while a step of it is possible.
SpecMainFair == SpecMain /\ WF_vars(NextMain)


\* ------------------------------------------------- claims on one render

RenderDone == render.pc = "done"
RenderCrashed == render.pc = "crashed"
InputRead == render.pc # "stdin"
InputRejected == InputRead /\ render.stdin.kind \in {"empty", "garbage"}

\* C12: empty or unparsable input produces exactly one diagnostic line and
\* nothing else: no Line 1 to Line 4, no git, credential, cache or network
\* operation before the render stops, and no crash.
C12_RejectedInputOneLine ==
    InputRejected =>
        /\ RenderDone
        /\ render.out = <<IF render.stdin.kind = "empty"
                          THEN DIAG_NO_INPUT ELSE DIAG_INVALID_JSON>>
        /\ render.ops = {}
        /\ render.call = NoCall

\* Unparsable input ended the render with the one diagnostic line.
C12_Witness ==
    /\ InputRejected
    /\ render.stdin.kind = "garbage"
    /\ render.out = <<DIAG_INVALID_JSON>>
    /\ RenderDone

\* The lines a finished render is to have written.
LinesDue ==
    <<"line1">>
    \o (IF render.commitShort THEN <<"line2">> ELSE <<>>)
    \o <<"line3">>
    \o (IF render.showLimits /\ render.segments > 0 THEN <<"line4">> ELSE <<>>)

\* C13: for every parseable input and every outcome of the collaborators the
\* render writes two to four lines in the order Line 1, Line 2, Line 3,
\* Line 4: Line 1 and Line 3 always, Line 2 exactly when a commit hash was
\* obtained, Line 4 exactly when rate limits are enabled and at least one
\* segment results.
C13_LinesWritten ==
    (render.stdin.kind = "json" /\ (RenderDone \/ RenderCrashed)) =>
        /\ render.out = LinesDue
        /\ Len(render.out) \in 2..4

\* The same for the renders that get past line 341.
C13_LinesWrittenUnlessCrashed ==
    (render.stdin.kind = "json" /\ RenderDone) =>
        /\ render.out = LinesDue
        /\ Len(render.out) \in 2..4

\* C14: every render that has read its input eventually writes its output
\* and finishes, even when every git call, the keychain call and the fetch
\* hang: each call ends at its timeout and yields its fallback.
C14_RenderFinishes ==
    InputRead ~> (RenderDone /\ render.out # <<>>)

\* A render that has got past line 341 finishes with its lines written.
C14_FinishesPastModelName ==
    (render.pc = "git") ~> (RenderDone /\ Len(render.out) >= 2)

\* No subprocess outlives its timeout by a clock step.
C14_CallsEndAtTimeout ==
    render.pc = "call" =>
        render.call.elapsed < TimeoutOf(render.call.kind) + WaitStepMs

\* Every git call, the keychain call and the fetch hung, and the render is
\* done with Line 1 and Line 3 written.
C14_AllHungDone ==
    /\ RenderDone
    /\ render.showLimits /\ render.platform = "darwin"
    /\ render.ops = {"git", "keychain", "credfile", "cache_read", "fetch"}
    /\ render.out = <<"line1", "line3">>


\* ------------------------------------------- two renders, one cache file

\* The renders that run at the same time, each its own process.
Renders == {1, 2}

\* A byte range of the file that no write has filled.
NUL == Tok("nul", 0)

\* write(fd, chunk) at offset off of a file holding s: the chunk replaces
\* what is there and extends the file; a gap before it reads as NULs.
Overlay(s, off, chunk) ==
    [j \in 1..(IF Len(s) > off + Len(chunk) THEN Len(s) ELSE off + Len(chunk)) |->
        IF j > off /\ j <= off + Len(chunk) THEN chunk[j - off]
        ELSE IF j <= Len(s) THEN s[j]
        ELSE NUL]

\* One render's rate-limit path: where it is, the payload it returns, the
\* document it is writing and how much of it is written.
RaceStart == [pc |-> "start", data |-> Undefined, text |-> <<>>, off |-> 0]

\* The cache entry an earlier render left.
EarlierEntry == StringifyEntry(TimeUnitMs, P2)

InitRace ==
    /\ now \in {TimeUnitMs, 3 * TimeUnitMs}
    /\ \E file \in {NoFile, FileOf(EarlierEntry)} :
         /\ cacheFile = file
         /\ race = [procs |-> [i \in Renders |-> RaceStart],
                    returned |-> {},
                    written |-> IF file.exists THEN {P2} ELSE {}]
    /\ last = NoRender
    /\ persisted = {}
    /\ render = RenderIdle
    /\ l1 = L1Idle
    /\ l3 = L3Idle

RaceRest == <<now, last, persisted, l1, l3, render>>

\* Lines 165-173 with the cache document read as `cache`.
cacheRead(i, cache) ==
    race' = [race EXCEPT !.procs[i] =
               IF IsFresh(cache, now)
               THEN [@ EXCEPT !.pc = "done", !.data = cache.data]
               ELSE [@ EXCEPT !.pc = "fetch"]]

\* Lines 166-167: the render reads what the file holds at this moment.
CacheRead(i) ==
    /\ race.procs[i].pc = "start"
    /\ cacheRead(i, ReadCache(cacheFile))
    /\ UNCHANGED <<cacheFile, RaceRest>>

\* Lines 216-242 with r what fetchUsageData makes of the fetch: usage data
\* is to be written, everything else is returned at once.
fetchDone(i, r) ==
    race' = [race EXCEPT
               !.procs[i] =
                  IF r.outcome = "fetched"
                  THEN [@ EXCEPT !.pc = "open", !.data = r.data,
                                 !.text = r.file.text]
                  ELSE [@ EXCEPT !.pc = "done", !.data = r.data],
               !.returned =
                  IF r.outcome \in {"fetched", "not_usage_data"}
                  THEN @ \cup {r.data} ELSE @]

\* Lines 207-239: the fetch ends; on an unparsable body the stale read takes
\* what the file holds at this moment.
FetchEnds(i) ==
    /\ race.procs[i].pc = "fetch"
    /\ \E run \in Runs : fetchDone(i, LiveFetch(cacheFile, now, run, TRUE))
    /\ UNCHANGED <<cacheFile, RaceRest>>

\* fs.writeFileSync, line 221: the file is opened with flag 'w', which
\* truncates it; where opening throws the write is given up (line 225).
OpenTruncate(i) ==
    /\ race.procs[i].pc = "open"
    /\ \E opened \in BOOLEAN :
         IF opened
         THEN /\ cacheFile' = FileOf(<<>>)
              /\ race' = [race EXCEPT !.procs[i].pc = "write"]
         ELSE /\ cacheFile' = cacheFile
              /\ race' = [race EXCEPT !.procs[i].pc = "done"]
    /\ UNCHANGED RaceRest

\* The document with its tokens up to k written by render i.
chunkWritten(i, p, k) ==
    /\ cacheFile' = FileOf(Overlay(cacheFile.text, p.off,
                                   SubSeq(p.text, p.off + 1, k)))
    /\ race' = [race EXCEPT
                  !.procs[i].off = k,
                  !.procs[i].pc = IF k = Len(p.text) THEN "done" ELSE "write",
                  !.written = IF k = Len(p.text) THEN @ \cup {p.data} ELSE @]

\* fs.writeFileSync, line 221: one write of the rest of the document or of a
\* part of it, at this render's own file offset.
WriteChunk(i) ==
    /\ race.procs[i].pc = "write"
    /\ \E k \in (race.procs[i].off + 1)..Len(race.procs[i].text) :
           chunkWritten(i, race.procs[i], k)
    /\ UNCHANGED RaceRest

\* fs.writeFileSync throws part-way (line 225): the file stays as it is.
WriteFails(i) ==
    /\ race.procs[i].pc = "write"
    /\ race' = [race EXCEPT !.procs[i].pc = "done"]
    /\ UNCHANGED <<cacheFile, RaceRest>>

RaceStep(i) ==
    \/ CacheRead(i)
    \/ FetchEnds(i)
    \/ OpenTruncate(i)
    \/ WriteChunk(i)
    \/ WriteFails(i)

NextRace == \E i \in Renders : RaceStep(i)

\* Each render is a process of its own that runs until it exits.
SpecRace == InitRace /\ [][NextRace]_vars /\ \A i \in Renders : WF_vars(RaceStep(i))

\* -------------------------------------------- claims on concurrent renders

RaceDone(i) == race.procs[i].pc = "done"

\* The payload render i returned is one the network returned to some render
\* or the data of an entry some render wrote in full.
PayloadComplete(i) ==
    Truthy(race.procs[i].data) =>
        race.procs[i].data \in race.returned \cup race.written

\* C16: under every interleaving of the unlocked cache reads, fetches and
\* cache writes of two concurrent renders, where a read that overlaps a write
\* may see a partial file, each render finishes, and every payload a render
\* uses for Line 4 is a complete payload the network returned to some render
\* or the complete data of an entry some render wrote earlier, never a
\* partial or mixed one.
C16_RacingRendersPlausible ==
    /\ [](\A i \in Renders : PayloadComplete(i))
    /\ <>(\A i \in Renders : RaceDone(i))

\* Render 1 has written a part of its entry; render 2 read that partial file,
\* fetched, and shows the payload of its own fetch.
C16_Witness ==
    /\ race.procs[1].pc = "write"
    /\ race.procs[1].off > 0
    /\ race.procs[1].data = P1
    /\ cacheFile.text = SubSeq(race.procs[1].text, 1, race.procs[1].off)
    /\ RaceDone(2)
    /\ race.procs[2].data = PError


\* ------------------------------------------------ the utilization gradient

\* Line 248: the 256-color codes of the 11 stops, green to yellow to red.
gradient == <<46, 82, 118, 154, 190, 226, 220, 214, 208, 202, 196>>

\* Utilizations are held in halves of a percent: h stands for h/2 percent, so
\* that both sides of every rounding boundary (5, 15, ..., 95 percent) are
\* drawn.
HalvesPerPercent == 2

\* Mutant: the rounded utilization wraps around the gradient instead of being
\* clamped to it.
gradientIndexWrapped(h) ==
    ((h + 5 * HalvesPerPercent) \div (10 * HalvesPerPercent)) % Len(gradient)

\* Lines 249-250: clamped = max(0, min(100, pct)); idx = min(round(clamped /
\* 10), gradient.length - 1), counted from 0. Math.round rounds a half up.
gradientIndex(h) ==
    Min((Max(0, Min(100 * HalvesPerPercent, h)) + 5 * HalvesPerPercent)
            \div (10 * HalvesPerPercent),
        Len(gradient) - 1)

\* getColorForUtilization, lines 246-252.
getColorForUtilization(h) ==
    <<ESC, "[", "3", "8", ";", "5", ";">>
    \o NumStr(gradient[gradientIndex(h) + 1]) \o <<"m">>

\* How far below 0 and above 100 percent the utilizations are drawn, in
\* halves of a percent.
MaxOutside == 20

Utilizations == (0 - MaxOutside)..(100 * HalvesPerPercent + MaxOutside)

NoColor == [idx |-> 0 - 1, code |-> <<>>]
colorOf(h) == [idx |-> gradientIndex(h), code |-> getColorForUtilization(h)]

InitColor ==
    /\ now = TimeUnitMs
    /\ cacheFile = NoFile
    /\ last = NoRender
    /\ persisted = {}
    /\ race = RaceIdle
    /\ l1 = L1Idle
    /\ l3 = L3Idle
    /\ \E p \in Utilizations, q \in Utilizations :
           /\ p <= q
           /\ render = [pc |-> "input", p |-> p, q |-> q,
                        cp |-> NoColor, cq |-> NoColor]

\* Line 290: const color = getColorForUtilization(pct), for two utilizations.
ColorBoth ==
    /\ render.pc = "input"
    /\ render' = [render EXCEPT !.pc = "colored", !.cp = colorOf(render.p),
                                !.cq = colorOf(render.q)]
    /\ UNCHANGED <<now, cacheFile, last, persisted, l1, l3, race>>

NextColor == ColorBoth

SpecColor == InitColor /\ [][NextColor]_vars

\* ------------------------------------------------ claims on the gradient

Colored == render.pc = "colored"
LastStop == Len(gradient) - 1

\* C21: the utilization-to-color mapping is monotonic over its 11 stops: for
\* utilizations p <= q the stop index of p is at most that of q; 0 and every
\* value below 0 map to the first stop, 100 and every value above 100 to the
\* last stop.
C21_GradientMonotonic ==
    Colored =>
        /\ Len(gradient) = 11
        /\ render.cp.idx \in 0..LastStop /\ render.cq.idx \in 0..LastStop
        /\ render.cp.idx <= render.cq.idx
        /\ (render.p <= 0 => render.cp.idx = 0)
        /\ (render.q <= 0 => render.cq.idx = 0)
        /\ (render.p >= 100 * HalvesPerPercent => render.cp.idx = LastStop)
        /\ (render.q >= 100 * HalvesPerPercent => render.cq.idx = LastStop)

\* A utilization below 0 got the first stop (46) and one above 100 the last
\* stop (196).
C21_Witness ==
    /\ Colored
    /\ render.p < 0 /\ render.q > 100 * HalvesPerPercent
    /\ render.cp.code = <<ESC, "[", "3", "8", ";", "5", ";", "4", "6", "m">>
    /\ render.cq.code = <<ESC, "[", "3", "8", ";", "5", ";", "1", "9", "6", "m">>

\* The index of the yellow midpoint stop, color 226.
YellowStop == 5

\* C22: every utilization from 0 to 49 percent is colored with a stop
\* strictly before the yellow midpoint stop (index 5, color 226), and every
\* utilization of 50 percent or more with the yellow midpoint stop or a
\* later one.
C22_ColorBands ==
    Colored =>
        /\ gradient[YellowStop + 1] = 226
        /\ (render.p \in 0..(49 * HalvesPerPercent) => render.cp.idx < YellowStop)
        /\ (render.p >= 50 * HalvesPerPercent => render.cp.idx >= YellowStop)

\* The bands as built: the yellow midpoint stop starts at 45 percent.
C22_ColorBandsAsBuilt ==
    Colored =>
        /\ (render.p < 45 * HalvesPerPercent => render.cp.idx < YellowStop)
        /\ (render.p >= 45 * HalvesPerPercent => render.cp.idx >= YellowStop)


\* ------------------------------------------------------ the text of Line 4

\* The labels of the four known windows, in the order of lines 302-305.
LabelText(label) ==
    CASE label = "5h" -> <<"5", "h">>
      [] label = "7d" -> <<"7", "d">>
      [] label = "sonnet" -> <<"s", "o", "n", "n", "e", "t">>
      [] label = "opus" -> <<"o", "p", "u", "s">>

\* Mutant: a utilization of 0 counts as no utilization.
limitSegmentUnlessZero(data, w, label) ==
    IF Truthy(data) /\ w.p = "object" /\ w.hasU /\ w.u # 0
    THEN <<c_dimWhite \o LabelText(label) \o <<":">> \o c_reset
           \o getColorForUtilization(w.u * HalvesPerPercent)
           \o NumStr(w.u) \o <<"%">> \o c_reset>>
    ELSE <<>>

\* buildLimitSegment, lines 287-295, as text, for a window without resets_at
\* whose utilization is a whole number: none when the utilization is null or
\* undefined (line 289).
limitSegment(data, w, label) ==
    IF Truthy(data) /\ w.p = "object" /\ w.hasU
    THEN <<c_dimWhite \o LabelText(label) \o <<":">> \o c_reset
           \o getColorForUtilization(w.u * HalvesPerPercent)
           \o NumStr(w.u) \o <<"%">> \o c_reset>>
    ELSE <<>>

\* segments.join(' | ').
JoinSegments(segments) ==
    IF segments = <<>> THEN <<>>
    ELSE segments[1]
         \o (IF Len(segments) >= 2 THEN <<" ", "|", " ">> \o segments[2] ELSE <<>>)
         \o (IF Len(segments) >= 3 THEN <<" ", "|", " ">> \o segments[3] ELSE <<>>)
         \o (IF Len(segments) >= 4 THEN <<" ", "|", " ">> \o segments[4] ELSE <<>>)

\* The segments of lines 301-306: the four windows in their fixed order, the
\* nulls filtered out.
limitSegments(data) ==
    limitSegment(data, data.five_hour, "5h")
    \o limitSegment(data, data.seven_day, "7d")
    \o limitSegment(data, data.seven_day_sonnet, "sonnet")
    \o limitSegment(data, data.seven_day_opus, "opus")

\* formatRateLimitLine, lines 298-308, as text: '' when data is falsy or no
\* segment results.
rateLimitLine(data) ==
    IF ~Truthy(data) THEN <<>> ELSE JoinSegments(limitSegments(data))

\* ---------------------------------------------- inputs of the Line 4 text

\* What a window key can hold: nothing, null, an object without utilization,
\* an object with a utilization.
WindowValues == {WinAbsent, WinNull, WinNoUtil, WinObj(0), WinObj(45), WinObj(100)}

UsagePayloads ==
    {Undefined, JsonNull}
    \cup {Obj(f, s, n, o, e) : f \in WindowValues, s \in WindowValues,
                               n \in WindowValues, o \in WindowValues,
                               e \in BOOLEAN}

InitLimits ==
    /\ now = TimeUnitMs
    /\ cacheFile = NoFile
    /\ last = NoRender
    /\ persisted = {}
    /\ race = RaceIdle
    /\ l1 = L1Idle
    /\ l3 = L3Idle
    /\ \E data \in UsagePayloads :
           render = [pc |-> "data", data |-> data, line |-> <<>>, written |-> FALSE]

\* Lines 587-590: Line 4 is formatted and written if it is not empty.
FormatLimits ==
    /\ render.pc = "data"
    /\ \E line \in {rateLimitLine(render.data)} :
           render' = [render EXCEPT !.pc = "formatted", !.line = line,
                                    !.written = (line # <<>>)]
    /\ UNCHANGED <<now, cacheFile, last, persisted, l1, l3, race>>

NextLimits == FormatLimits

SpecLimits == InitLimits /\ [][NextLimits]_vars

\* ------------------------------------------------- claims on the Line 4 text

LimitsFormatted == render.pc = "formatted"

\* A window's entry is present with a non-null utilization.
HasUtilization(w) == w.p = "object" /\ w.hasU

\* The visible text due for a window: label:NN%, or nothing.
SegmentDue(w, label) ==
    IF HasUtilization(w)
    THEN <<LabelText(label) \o <<":">> \o NumStr(w.u) \o <<"%">>>>
    ELSE <<>>

SegmentsDue(data) ==
    IF data.kind # "object" THEN <<>>
    ELSE SegmentDue(data.five_hour, "5h") \o SegmentDue(data.seven_day, "7d")
         \o SegmentDue(data.seven_day_sonnet, "sonnet")
         \o SegmentDue(data.seven_day_opus, "opus")

\* The number of separators in a visible line.
Separators(s) == Cardinality({i \in 1..Len(s) : s[i] = "|"})

\* C23: Line 4 contains exactly one segment for each of the four known
\* windows whose entry is present with a non-null utilization, in the fixed
\* order 5h, 7d, sonnet, opus, joined by the separator; an absent or null
\* window contributes no segment and is not an error; Line 4 is omitted when
\* zero segments result.
C23_Line4Segments ==
    LimitsFormatted =>
        /\ stripAnsi(render.line) = JoinSegments(SegmentsDue(render.data))
        /\ render.written <=> SegmentsDue(render.data) # <<>>
        /\ render.written =>
               Separators(stripAnsi(render.line)) = Len(SegmentsDue(render.data)) - 1

\* 5h is null, 7d is at 0 percent, sonnet is absent and opus is at 100
\* percent: Line 4 is "7d:0% | opus:100%".
C23_Witness ==
    /\ LimitsFormatted
    /\ render.data = Obj(WinNull, WinObj(0), WinAbsent, WinObj(100), FALSE)
    /\ stripAnsi(render.line) =
           <<"7", "d", ":", "0", "%", " ", "|", " ",
             "o", "p", "u", "s", ":", "1", "0", "0", "%">>


\* ------------------------------------------------- claims on the brick row

\* The visible brick row: "[", the glyphs, "]".
BrickRow(filled, hollow) ==
    <<"[">> \o Repeat(<<"#">>, filled) \o Repeat(<<"o">>, hollow) \o <<"]">>

\* The glyphs of the rendered Line 3.
GlyphCount(line) == Cardinality({i \in 1..Len(line) : line[i] \in {"#", "o"}})

\* C24: for every input, Line 3 renders a fixed-count brick sequence: exactly
\* brickTotal glyphs, usedCount filled followed by brickTotal - usedCount
\* hollow, with 0 <= usedCount <= brickTotal, including when the used tokens
\* exceed the window size or used_percentage lies outside 0..100.
C24_FixedBrickCount ==
    L3Done =>
        /\ l3.out.usedBricks \in 0..l3.out.totalBricks
        /\ GlyphCount(stripAnsi(l3.out.brickLine)) = l3.out.totalBricks
        /\ SubSeq(stripAnsi(l3.out.brickLine), 1, l3.out.totalBricks + 2)
               = BrickRow(l3.out.usedBricks, l3.out.totalBricks - l3.out.usedBricks)

\* The brick row as built: a for loop per kind, neither count clamped.
C24_BrickRowAsBuilt ==
    L3Done =>
        /\ SubSeq(stripAnsi(l3.out.brickLine), 1,
                  Max(0, l3.out.usedBricks) + Max(0, l3.out.freeBricks) + 2)
               = BrickRow(l3.out.usedBricks, l3.out.freeBricks)
        /\ (l3.out.usedTokens \in 0..l3.out.totalTokens =>
               /\ l3.out.usedBricks \in 0..l3.out.totalBricks
               /\ GlyphCount(stripAnsi(l3.out.brickLine)) = l3.out.totalBricks)

\* 250000 used tokens in a window of 200000: 37 filled bricks where 30 are
\* due.
C24_Overflow ==
    /\ L3Done
    /\ l3.t.size = Field(200000) /\ l3.t.usedPct = Missing
    /\ l3.t.currentUsage = Field(250000)
    /\ l3.out.totalBricks = 30
    /\ l3.out.usedBricks = 37 /\ l3.out.freeBricks = 0 - 7
    /\ GlyphCount(stripAnsi(l3.out.brickLine)) = 37


\* ------------------------------------ sequential renders on the wall clock

\* Date.now() is the wall clock: between two renders it can be set back
\* (clock synchronisation, a manual change), so that an entry written
\* earlier carries a timestamp in the future.
ClockSetBack ==
    /\ now > TimeUnitMs
    /\ now' = now - TimeUnitMs
    /\ UNCHANGED <<cacheFile, last, persisted, l1, l3, render, race>>

InitClock ==
    /\ now = TimeUnitMs
    /\ cacheFile \in InitialCacheFiles \cup {FileOf(StringifyEntry(0, P2))}
    /\ last = NoRender
    /\ persisted = {}
    /\ render = RenderIdle
    /\ race = RaceIdle
    /\ l1 = L1Idle
    /\ l3 = L3Idle

NextClock == Tick \/ ClockSetBack \/ Render

SpecClock == InitClock /\ [][NextClock]_vars

\* ------------------------------------------------ claims on cache freshness

\* The latest render used the cached data without starting a fetch.
UsedCache == CredRender /\ ~last.fetched
EntryAge == last.at - EntryBefore.timestamp

\* C25: whenever a render uses cached data without starting a fetch, the
\* entry's age satisfies 0 <= now - timestamp < TTL; an entry whose age is
\* exactly the TTL, an entry with a missing or zero timestamp, and an entry
\* whose timestamp lies in the future are all treated as not fresh and
\* trigger a fetch.
C25_FreshWithinTTL ==
    /\ UsedCache =>
           /\ EntryBefore.ok /\ EntryBefore.hasTs
           /\ 0 <= EntryAge /\ EntryAge < CACHE_TTL_MS
    /\ (CredRender /\ EntryBefore.ok) =>
           /\ (EntryBefore.hasTs /\ EntryAge = CACHE_TTL_MS) => last.fetched
           /\ (~EntryBefore.hasTs \/ EntryBefore.timestamp = 0) => last.fetched
           /\ (EntryBefore.hasTs /\ EntryBefore.timestamp > last.at) => last.fetched

\* Freshness as built (line 168): a non-zero timestamp and now - timestamp
\* below the TTL, a negative age included.
C25_FreshAsBuilt ==
    /\ UsedCache <=>
           /\ CredRender
           /\ EntryBefore.ok /\ EntryBefore.hasTs /\ EntryBefore.timestamp # 0
           /\ EntryAge < CACHE_TTL_MS
    /\ (CredRender /\ EntryBefore.ok) =>
           /\ (EntryBefore.hasTs /\ EntryAge = CACHE_TTL_MS) => last.fetched
           /\ (~EntryBefore.hasTs \/ EntryBefore.timestamp = 0) => last.fetched

\* A render used an entry stamped later than its own Date.now().
C25_FutureEntryUsed ==
    /\ UsedCache
    /\ EntryBefore.ok /\ EntryBefore.timestamp > last.at
    /\ last.data = EntryBefore.data
    /\ last.line4 # <<>>


\* ------------------------------------------ claims on the order of a render

\* The operations of the rate-limit path.
RateLimitOps == {"keychain", "credfile", "cache_read", "fetch", "cache_write"}

\* The render has reached the rate-limit path: it is about to read the
\* credential, is in the keychain or fetch subprocess, or has done one of the
\* path's operations.
RateLimitPathReached ==
    \/ render.pc \in {"token", "usage"}
    \/ render.pc = "call" /\ render.call.kind \in {"keychain", "fetch"}
    \/ render.ops \cap RateLimitOps # {}

\* Line 1, Line 2 (if any) and Line 3 stand at the head of the output.
Lines123Written ==
    /\ Len(render.out) >= Len(linesWritten(render.commitShort))
    /\ SubSeq(render.out, 1, Len(linesWritten(render.commitShort)))
           = linesWritten(render.commitShort)

\* C26: Line 1, Line 2 (if any) and Line 3 are written to standard output
\* before the credential is read, the cache is accessed or a fetch is
\* started, so no failure, timeout or delay of the rate-limit path can change
\* or suppress Lines 1 to 3.
C26_Lines123First ==
    /\ [](RateLimitPathReached => Lines123Written)
    /\ [][RateLimitPathReached =>
              /\ render'.commitShort = render.commitShort
              /\ Len(render'.out) >= Len(render.out)
              /\ SubSeq(render'.out, 1, Len(render.out)) = render.out]_vars

\* The keychain was asked and a fetch was started, no Line 4 came of them,
\* and the render ended with Lines 1 to 3 as written before them.
C26_Witness ==
    /\ RenderDone
    /\ {"keychain", "fetch"} \subseteq render.ops
    /\ render.commitShort
    /\ render.out = <<"line1", "line2", "line3">>

====
